---- MODULE Spec2Model ----
(***************************************************************************)
(* The DropCountr usage coordinator                                        *)
(* (custom_components/dropcountr/coordinator.py) as a state machine: the   *)
(* poll cycle, the per-connection pipeline fetch -> detect -> merge ->     *)
(* update-seen-window, the persisted statistics checkpoint and the         *)
(* published snapshot.  Beside it: the cache of the connection list with  *)
(* its concurrent callers, the sensors that read the snapshot (sensor.py,  *)
(* binary_sensor.py) and the set-up of the config entry (__init__.py),     *)
(* each with a specification of its own.                                   *)
(*                                                                         *)
(* Time is counted in whole hours.  A usage record is identified by the    *)
(* hour its interval starts at; its readings are a function of the         *)
(* connection and that hour (records are immutable once returned).         *)
(***************************************************************************)
EXTENDS Integers, Sequences, FiniteSets, TLC

VARIABLES
    env,        \* the world outside: the account's connections, the hours the utility has
                \* readings for, the faults the statistics backend shows; whether the
                \* history of the detector is kept, and how many cycles are followed
    now,        \* the wall clock, in hours
    phase,      \* "Idle" | "Gather": position of _async_update_data
    cycle,      \* number of poll cycles started so far
    outcome,    \* how the last cycle ended: "none" | "published" | "empty" | "failed"
    cache,      \* _cached_service_connections and whether its timestamp is within the TTL
    pc,         \* per connection: position of _process_service_connection
    resp,       \* per connection: the usage response fetched in this cycle
    hist,       \* per connection: the detector's result in this cycle
    res,        \* per connection: what asyncio.gather holds for the pipeline
    seen,       \* _historical_state[c][LAST_SEEN_DATES_KEY]
    session,    \* _statistics_inserted_this_session[c]
    ckpt,       \* the statistics backend: last persisted point per connection and metric
    usage_data, \* coordinator.usage_data (read by the list_usage service)
    data,       \* coordinator.data (read by the sensors)
    subCount,   \* history: how often a point (connection, metric, hour) was submitted
    mlog,       \* history: what the last merge of a connection read and submitted
    mfail,      \* history: the merge of this cycle raised
    track,      \* history: each record's fate in the detector, per connection
    replaced,   \* history: the snapshot the last publication replaced
    updates,    \* history: number of cycles of this coordinator that returned a snapshot
    wall,       \* the wall clock of the connection cache, in minutes
    cached_service_connections,     \* _cached_service_connections: none, or the
                                    \* list a call of the API returned
    service_connections_cache_time, \* _service_connections_cache_time
    caller,     \* per caller of _get_cached_service_connections: its position, the
                \* time it read on entry, its call of the API, what it returned
    apiCalls,   \* history: the calls of list_service_connections, each with the
                \* entry time of its caller and its result
    today,      \* the current date the sensors read, as a day number
    records,    \* the usage list coordinator.data holds for the sensor's connection
    native_value,   \* what the sensors of the connection show
    entry,      \* the state of the config entry
    client,     \* the API client of the entry: whether it exists and is logged in
    state_lock, \* _state_lock: free, or the task that holds it
    task,       \* per task calling _check_and_mark_statistics_inserted: its position,
                \* its arguments, what it was told
    flow,       \* the config flow: its last result, with what the API answered
    api_log,    \* history: the API-client calls of the config flow, of the unload and
                \* of the service operations, each with where it ran
    probe       \* a usage record and a current time, with what the sensors' filter
                \* and the detector make of the record

cycleVars == <<phase, cycle, outcome, cache>>
pipeVars == <<pc, resp, hist, res>>
memVars == <<seen, session>>
pubVars == <<usage_data, data>>
histVars == <<subCount, mlog, mfail, track, replaced, updates>>

listVars == <<wall, cached_service_connections, service_connections_cache_time,
              caller, apiCalls>>
sensorVars == <<today, records, native_value>>
setupVars == <<entry, client>>
markVars == <<state_lock, task>>
flowVars == <<flow, api_log>>
probeVars == <<probe>>

coordinatorVars == <<env, now, cycleVars, pipeVars, memVars, ckpt, pubVars, histVars>>
sideVars == <<listVars, sensorVars, setupVars, markVars, flowVars, probeVars>>

vars == <<coordinatorVars, sideVars>>

----------------------------------------------------------------------------
(* Bounds of the model *)

MaxHour == 2
MaxCycles == 2
MaxPolls == 10

(* Program constants, in hours *)

HistoricalAgeHours == 2
RetentionHours == 168
FetchWindowHours == 168
CleanupEvery == 10
NoCheckpointTime == -1
UnitHours == 1

(* The tolerance the specification gives for a checkpoint ahead of the     *)
(* incoming records: a couple of days.  The code has no counterpart.       *)
CheckpointToleranceHours == 48

Conns == {1, 2}

(* A record that arrives late has a record more than the tolerance after   *)
(* it, with water usage.                                                   *)
FarHour == 3 * ((CheckpointToleranceHours \div 3) + MaxHour)

Hours == 0 .. MaxHour
AllHours == Hours \cup {FarHour}
Metrics == <<"total_gallons", "irrigation_gallons", "irrigation_events">>
MetricSet == {Metrics[i] : i \in 1 .. Len(Metrics)}

(* The clock advances hour by hour.  From QuietFrom on every record of the *)
(* model is older than HistoricalAgeHours, and up to QuietTo every record   *)
(* is inside the 7-day windows: the hours between differ in nothing the     *)
(* coordinator reads, and the clock steps over them.  The clock stops when  *)
(* every such record has left the windows.  The record of FarHour begins in *)
(* the hours stepped over: the coordinator meets it settled.                *)
QuietFrom == MaxHour + HistoricalAgeHours + 1
QuietTo == RetentionHours - 1
MaxNow == RetentionHours + MaxHour
NextHour(t) == IF t = QuietFrom THEN QuietTo ELSE t + 1

----------------------------------------------------------------------------
(* Usage records *)

total_gallons(h) == CASE h % 3 = 0 -> 2 [] h % 3 = 1 -> 0 [] OTHER -> 1
irrigation_gallons(h) == IF h % 3 = 0 THEN 1 ELSE 0
irrigation_events(h) == IF h % 3 = 0 THEN 1 ELSE 0

MetricValue(m, h) ==
    CASE m = "total_gallons" -> total_gallons(h)
      [] m = "irrigation_gallons" -> irrigation_gallons(h)
      [] m = "irrigation_events" -> irrigation_events(h)

Min(S) == CHOOSE x \in S : \A y \in S : x <= y
Max(S) == CHOOSE x \in S : \A y \in S : x >= y

RECURSIVE SortedSeq(_)
SortedSeq(S) == IF S = {} THEN <<>> ELSE <<Min(S)>> \o SortedSeq(S \ {Min(S)})

NoResp == [ok |-> FALSE, recs |-> {}]
OkResp(R) == [ok |-> TRUE, recs |-> R]

Absent == [present |-> FALSE, recs |-> {}, cyc |-> 0]
Entry(R, k) == [present |-> TRUE, recs |-> R, cyc |-> k]
EmptySnapshot == [c \in Conns |-> Absent]
NoData == [valid |-> FALSE, snap |-> EmptySnapshot]
Data(snap) == [valid |-> TRUE, snap |-> snap]

NoStat == [exists |-> FALSE, start |-> 0, sum |-> 0]
Stat(t, s) == [exists |-> TRUE, start |-> t, sum |-> s]

NoCache == [set |-> FALSE, list |-> {}, fresh |-> FALSE]

----------------------------------------------------------------------------
(* _get_usage_for_service: the API is asked for the last 7 days of hourly   *)
(* records; it answers with some of the records of that window, or fails.  *)

FetchWindow(meter, t) == {h \in meter : t - FetchWindowHours <= h /\ h <= t}

GetUsageResults(meter, t) == {NoResp} \cup {OkResp(R) : R \in SUBSET FetchWindow(meter, t)}

----------------------------------------------------------------------------
(* _detect_new_historical_data *)

IsNewData(h, last_seen_dates) == h \notin last_seen_dates

(* A detector that settles a record whatever its volume *)
IsHistoricalAnyVolume(h, t) == (t - h) > HistoricalAgeHours

(* A detector that settles a record from one hour of age on *)
IsHistoricalAfterOneHour(h, t) == (t - h) >= UnitHours /\ total_gallons(h) > 0

(* A detector that settles a record at two hours of age *)
IsHistoricalAtTwoHours(h, t) == (t - h) >= HistoricalAgeHours /\ total_gallons(h) > 0

IsHistorical(h, t) == (t - h) > HistoricalAgeHours /\ total_gallons(h) > 0

DetectNewHistoricalData(last_seen_dates, R, t) ==
    {h \in R : IsNewData(h, last_seen_dates) /\ IsHistorical(h, t)}

----------------------------------------------------------------------------
(* _update_historical_state and _cleanup_historical_state *)

NewHours(R, t) == {h \in R : t - RetentionHours <= h /\ h <= t}

(* A seen window that is pruned and never added to *)
UpdateHistoricalStateForgets(existing_hours, R, t) ==
    {h \in existing_hours : h > t - RetentionHours}

(* A seen window that takes in the settled records only *)
UpdateHistoricalStateSettledOnly(existing_hours, R, t) ==
    IF R = {} THEN existing_hours
    ELSE {h \in existing_hours \cup {x \in NewHours(R, t) : IsHistorical(x, t)} :
             h > t - RetentionHours}

UpdateHistoricalState(existing_hours, R, t) ==
    IF R = {} THEN existing_hours
    ELSE {h \in existing_hours \cup NewHours(R, t) : h > t - RetentionHours}

CleanupHistoricalState(S, t) == [c \in Conns |-> {h \in S[c] : h > t - RetentionHours}]

----------------------------------------------------------------------------
(* _insert_historical_statistics *)

InsertionKey(m, batch) == <<m, Min(batch), Max(batch)>>

(* A merger that passes over the records whose value is zero *)
RECURSIVE BuildStatisticsSkipsZero(_, _, _, _)
BuildStatisticsSkipsZero(m, recs, current_sum, last_time) ==
    IF recs = <<>> THEN <<>>
    ELSE LET h == Head(recs)
             value == MetricValue(m, h)
         IN  IF h <= last_time \/ value = 0
             THEN BuildStatisticsSkipsZero(m, Tail(recs), current_sum, last_time)
             ELSE <<[start |-> h, state |-> value, sum |-> current_sum + value]>>
                  \o BuildStatisticsSkipsZero(m, Tail(recs), current_sum + value, last_time)

RECURSIVE BuildStatistics(_, _, _, _)
BuildStatistics(m, recs, current_sum, last_time) ==
    IF recs = <<>> THEN <<>>
    ELSE LET h == Head(recs)
             value == MetricValue(m, h)
         IN  IF h <= last_time
             THEN BuildStatistics(m, Tail(recs), current_sum, last_time)
             ELSE <<[start |-> h, state |-> value, sum |-> current_sum + value]>>
                  \o BuildStatistics(m, Tail(recs), current_sum + value, last_time)

(* get_last_statistics: the persisted point, or nothing when the read fails *)
GetLastStatistics(stat, readOk) == IF readOk THEN stat ELSE NoStat

(* A merger that starts every batch from a sum of zero *)
ExistingSumZero(last_stat) == 0

ExistingSum(last_stat) == IF last_stat.exists THEN last_stat.sum ELSE 0

LastTime(last_stat) == IF last_stat.exists THEN last_stat.start ELSE NoCheckpointTime

(* async_add_external_statistics: the points are written by start time; the *)
(* last statistic is the written point with the latest start.               *)
AddExternalStatistics(stat, points) ==
    LET last == points[Len(points)]
    IN  IF stat.exists /\ stat.start > last.start THEN stat
        ELSE Stat(last.start, last.sum)

Bump(n) == IF n < 2 THEN n + 1 ELSE 2

CountSubmitted(sub, points) ==
    [h \in AllHours |->
        IF \E i \in 1 .. Len(points) : points[i].start = h THEN Bump(sub[h]) ELSE sub[h]]

Unreached == [state |-> "unreached", read |-> NoStat, points |-> <<>>]
NoLog == [on |-> FALSE, batch |-> {}, count |-> 0,
          entries |-> [m \in MetricSet |-> Unreached]]

(* A merger without the session guard *)
InsertMetricUnguarded(acc, m, batch, readOk, sinkOk) ==
    LET insertion_key == InsertionKey(m, batch)
        last_stat == GetLastStatistics(acc.ckpt[m], readOk)
        statistics == BuildStatistics(m, SortedSeq(batch), ExistingSum(last_stat),
                                      LastTime(last_stat))
        marked == [acc EXCEPT !.session = @ \cup {insertion_key}]
    IN  IF acc.raised THEN acc
        ELSE IF statistics = <<>>
        THEN [marked EXCEPT !.log[m] = [state |-> "done", read |-> last_stat, points |-> <<>>]]
        ELSE IF sinkOk
        THEN [marked EXCEPT
                !.ckpt[m] = AddExternalStatistics(@, statistics),
                !.sub[m] = CountSubmitted(@, statistics),
                !.count = @ + Len(statistics),
                !.log[m] = [state |-> "done", read |-> last_stat, points |-> statistics]]
        ELSE [marked EXCEPT
                !.raised = TRUE,
                !.log[m] = [state |-> "raised", read |-> last_stat, points |-> statistics]]

(* A merger that logs the sink's rejection and goes on *)
InsertMetricSwallows(acc, m, batch, readOk, sinkOk) ==
    LET insertion_key == InsertionKey(m, batch)
        last_stat == GetLastStatistics(acc.ckpt[m], readOk)
        statistics == BuildStatistics(m, SortedSeq(batch), ExistingSum(last_stat),
                                      LastTime(last_stat))
        marked == [acc EXCEPT !.session = @ \cup {insertion_key}]
    IN  IF insertion_key \in acc.session
        THEN [acc EXCEPT !.log[m] = [state |-> "skipped", read |-> NoStat, points |-> <<>>]]
        ELSE IF statistics = <<>>
        THEN [marked EXCEPT !.log[m] = [state |-> "done", read |-> last_stat, points |-> <<>>]]
        ELSE IF sinkOk
        THEN [marked EXCEPT
                !.ckpt[m] = AddExternalStatistics(@, statistics),
                !.sub[m] = CountSubmitted(@, statistics),
                !.count = @ + Len(statistics),
                !.log[m] = [state |-> "done", read |-> last_stat, points |-> statistics]]
        ELSE [marked EXCEPT
                !.log[m] = [state |-> "raised", read |-> last_stat, points |-> statistics]]

(* One pass of the loop over the metrics.  acc carries the state the loop   *)
(* has produced so far; after a raise the remaining metrics are not reached. *)
InsertMetric(acc, m, batch, readOk, sinkOk) ==
    LET insertion_key == InsertionKey(m, batch)
        last_stat == GetLastStatistics(acc.ckpt[m], readOk)
        statistics == BuildStatistics(m, SortedSeq(batch), ExistingSum(last_stat),
                                      LastTime(last_stat))
        marked == [acc EXCEPT !.session = @ \cup {insertion_key}]
    IN  IF acc.raised THEN acc
        ELSE IF insertion_key \in acc.session
        THEN [acc EXCEPT !.log[m] = [state |-> "skipped", read |-> NoStat, points |-> <<>>]]
        ELSE IF statistics = <<>>
        THEN [marked EXCEPT !.log[m] = [state |-> "done", read |-> last_stat, points |-> <<>>]]
        ELSE IF sinkOk
        THEN [marked EXCEPT
                !.ckpt[m] = AddExternalStatistics(@, statistics),
                !.sub[m] = CountSubmitted(@, statistics),
                !.count = @ + Len(statistics),
                !.log[m] = [state |-> "done", read |-> last_stat, points |-> statistics]]
        ELSE [marked EXCEPT
                !.raised = TRUE,
                !.log[m] = [state |-> "raised", read |-> last_stat, points |-> statistics]]

RECURSIVE InsertMetrics(_, _, _, _, _)
InsertMetrics(acc, i, batch, readOk, sinkOk) ==
    IF i > Len(Metrics) THEN acc
    ELSE InsertMetrics(InsertMetric(acc, Metrics[i], batch, readOk[Metrics[i]],
                                    sinkOk[Metrics[i]]),
                       i + 1, batch, readOk, sinkOk)

(* A merger that does not look for the recorder *)
InsertHistoricalStatisticsAnyway(c, batch, recorder, readOk, sinkOk) ==
    LET acc0 == [session |-> session[c], ckpt |-> ckpt[c], sub |-> subCount[c],
                 count |-> 0, raised |-> FALSE,
                 log |-> [m \in MetricSet |-> Unreached]]
    IN  IF batch = {} THEN acc0
        ELSE InsertMetrics(acc0, 1, batch, readOk, sinkOk)

InsertHistoricalStatistics(c, batch, recorder, readOk, sinkOk) ==
    LET acc0 == [session |-> session[c], ckpt |-> ckpt[c], sub |-> subCount[c],
                 count |-> 0, raised |-> FALSE,
                 log |-> [m \in MetricSet |-> Unreached]]
    IN  IF batch = {} \/ ~recorder THEN acc0
        ELSE InsertMetrics(acc0, 1, batch, readOk, sinkOk)

(* What can go wrong in one merge: nothing, the recorder is not there, the  *)
(* read of one metric's last statistic fails, or the sink rejects one       *)
(* metric's batch.                                                          *)
MergeFaults(kinds) ==
    {[kind |-> "none", metric |-> Metrics[1]]}
    \cup {[kind |-> k, metric |-> Metrics[1]] : k \in kinds \cap {"recorder"}}
    \cup {[kind |-> k, metric |-> m] : k \in kinds \cap {"read", "sink"}, m \in MetricSet}

AllFaults == {"recorder", "read", "sink"}

----------------------------------------------------------------------------
(* _get_cached_service_connections *)

ApiFail == [ok |-> FALSE, list |-> {}]

(* api is ApiFail (None or an exception) or the list the API returns *)
GetCachedServiceConnections(cch, api) ==
    IF cch.set /\ cch.fresh
    THEN [failed |-> FALSE, list |-> cch.list, cache |-> cch]
    ELSE IF ~api.ok
    THEN [failed |-> ~cch.set, list |-> cch.list, cache |-> cch]
    ELSE [failed |-> FALSE, list |-> api.list,
          cache |-> [set |-> TRUE, list |-> api.list, fresh |-> TRUE]]

(* list_service_connections fails, or lists the account's connections, or none *)
ApiAnswers(accounts) == {ApiFail} \cup {[ok |-> TRUE, list |-> L] : L \in {{}, accounts}}

----------------------------------------------------------------------------
(* _async_update_data: collecting the gathered results *)

(* A collector that gives up at the first exception among the results, as  *)
(* a gather that lets it through would: the snapshot stays what it was     *)
CollectResultsAbortsOnError(results, responses, k) ==
    IF \E d \in Conns : results[d] = "exc" THEN usage_data
    ELSE [c \in Conns |->
            IF results[c] = "ok" /\ responses[c].ok
            THEN Entry(responses[c].recs, k)
            ELSE Absent]

(* A collector that enters a failed fetch as an empty response *)
CollectResultsEmptyForFailed(results, responses, k) ==
    [c \in Conns |->
        IF results[c] = "ok" /\ responses[c].ok
        THEN Entry(responses[c].recs, k)
        ELSE IF results[c] = "none" THEN Entry({}, k) ELSE Absent]

(* A collector that updates the published mapping in place *)
CollectResultsKeepsStale(results, responses, k) ==
    [c \in Conns |->
        IF results[c] = "ok" /\ responses[c].ok
        THEN Entry(responses[c].recs, k)
        ELSE usage_data[c]]

CollectResults(results, responses, k) ==
    [c \in Conns |->
        IF results[c] = "ok" /\ responses[c].ok
        THEN Entry(responses[c].recs, k)
        ELSE Absent]

SnapshotSize(snap) == Cardinality({c \in Conns : snap[c].present})

----------------------------------------------------------------------------
(* History of each record in the detector *)

TrackDetect(tr, R, emitted, t) ==
    [h \in AllHours |->
        IF h \in emitted THEN "emitted"
        ELSE IF tr[h] = "emitted" THEN "emitted"
        ELSE IF h \in R
        THEN IF t - h > HistoricalAgeHours
             THEN (IF tr[h] = "prov" THEN "held" ELSE tr[h])
             ELSE (IF tr[h] = "unseen" THEN "prov" ELSE tr[h])
        ELSE IF tr[h] \in {"prov", "held"} THEN "gap" ELSE tr[h]]

TrackLost(tr) == [h \in AllHours |-> IF tr[h] \in {"prov", "held"} THEN "gap" ELSE tr[h]]

----------------------------------------------------------------------------
(* The connection cache, its callers and its clock *)

MaxWall == 6
MaxApiCalls == 3

CacheDurationMinutes == 5
NoList == 0
NoTime == -1

Callers == {1, 2}

(* A caller outside _get_cached_service_connections that has not called yet *)
NotCalled == [pc |-> "idle", now |-> 0, call |-> 0, ret |-> NoList]

(* The coordinator as constructed: nothing cached, nobody calling *)
InitList ==
    /\ wall = 0
    /\ cached_service_connections = NoList
    /\ service_connections_cache_time = NoTime
    /\ caller = [k \in Callers |-> NotCalled]
    /\ apiCalls = <<>>

(* The sensors of a connection before the first snapshot *)
NoneValue == -1

NoUsage == [present |-> FALSE, usage_data |-> <<>>]
NotRendered ==
    [rendered |-> FALSE, daily_total |-> NoneValue, irrigation_gallons |-> NoneValue,
     irrigation_events |-> NoneValue, weekly_total |-> 0, monthly_total |-> 0,
     leak_detected |-> FALSE]

InitSensor ==
    /\ today = 0
    /\ records = NoUsage
    /\ native_value = NotRendered

(* A config entry that is set up: its client is logged in.  The entry      *)
(* keeps, as history, what login and is_logged_in answered at its last      *)
(* setup.                                                                   *)
NoClient == [exists |-> FALSE, logged_in |-> FALSE]
LoggedIn == [exists |-> TRUE, logged_in |-> TRUE]

InitLoaded ==
    /\ entry = [state |-> "loaded", login |-> "true", check |-> "true"]
    /\ client = LoggedIn

(* The tasks that call _check_and_mark_statistics_inserted, and the lock of *)
(* the shared state when nobody holds it                                    *)
Tasks == {1, 2}
Free == 0

NoKey == <<"none", 0, 0>>
NoTask == [pc |-> "idle", service_connection_id |-> 1, insertion_key |-> NoKey,
           already |-> FALSE]

InitMark ==
    /\ state_lock = Free
    /\ task = [k \in Tasks |-> NoTask]

(* No config flow under way *)
NoFlow == [type |-> "none", errors |-> {}, login |-> "not_called", list |-> "not_called"]

InitFlow ==
    /\ flow = NoFlow
    /\ api_log = {}

(* A record and a time nobody has looked at *)
Probe(h, t) == [hour |-> h, now |-> t, done |-> FALSE, kept |-> FALSE, settled |-> FALSE]

InitProbe == probe = Probe(0, 0)

----------------------------------------------------------------------------
InitCycles(accounts, meter, faults, tracking, cycles) ==
    /\ env = [accounts |-> accounts, meter |-> meter, faults |-> faults,
              tracking |-> tracking, cycles |-> cycles]
    /\ now = MaxHour
    /\ phase = "Idle"
    /\ cycle = 0
    /\ outcome = "none"
    /\ cache = NoCache
    /\ pc = [c \in Conns |-> "idle"]
    /\ resp = [c \in Conns |-> NoResp]
    /\ hist = [c \in Conns |-> {}]
    /\ res = [c \in Conns |-> "pending"]
    /\ seen = [c \in Conns |-> {}]
    /\ session = [c \in Conns |-> {}]
    /\ ckpt = [c \in Conns |-> [m \in MetricSet |-> NoStat]]
    /\ usage_data = EmptySnapshot
    /\ data = NoData
    /\ subCount = [c \in Conns |-> [m \in MetricSet |-> [h \in AllHours |-> 0]]]
    /\ mlog = [c \in Conns |-> NoLog]
    /\ mfail = [c \in Conns |-> FALSE]
    /\ track = [c \in Conns |-> [h \in AllHours |-> "unseen"]]
    /\ replaced = EmptySnapshot
    /\ updates = 0

InitCoordinator(accounts, meter, faults, tracking) ==
    InitCycles(accounts, meter, faults, tracking, MaxCycles)

InitWith(accounts, meter, faults, tracking) ==
    /\ InitCoordinator(accounts, meter, faults, tracking)
    /\ InitList
    /\ InitProbe
    /\ InitFlow
    /\ InitMark
    /\ InitSensor
    /\ InitLoaded

(* The merger: an account with one service connection, the utility holding *)
(* a reading for every hour with water usage, a statistics backend that    *)
(* may fail in every way.                                                  *)
Init == InitWith({1}, {h \in Hours : total_gallons(h) > 0}, AllFaults, FALSE)

(* The detector: an account with one service connection, the utility       *)
(* holding a reading for every hour, a statistics backend that accepts     *)
(* what it is given when it is there; the history of every record is kept. *)
InitDetect == InitWith({1}, Hours, {"recorder"}, TRUE)

(* The late arrival: an account with one service connection, the utility   *)
(* holding a reading for the first hour and one for FarHour, a statistics  *)
(* backend that may fail in every way.                                     *)
InitLate == InitWith({1}, {0, FarHour}, AllFaults, FALSE)

(* The fan-out: an account with every connection of the model, the utility *)
(* holding one reading for each, a statistics backend that may fail in     *)
(* every way.                                                              *)
InitFanOut == InitWith(Conns, {0}, AllFaults, FALSE)

(* _async_update_data up to asyncio.gather: the connection list is there,   *)
(* one pipeline is started per connection.                                  *)
StartCycle ==
    /\ phase = "Idle"
    /\ cycle < env.cycles
    /\ \E api \in ApiAnswers(env.accounts) :
         LET g == GetCachedServiceConnections(cache, api)
         IN  /\ ~g.failed
             /\ g.list # {}
             /\ cache' = g.cache
             /\ pc' = [c \in Conns |-> IF c \in g.list THEN "start" ELSE "idle"]
    /\ phase' = "Gather"
    /\ cycle' = cycle + 1
    /\ resp' = [c \in Conns |-> NoResp]
    /\ hist' = [c \in Conns |-> {}]
    /\ res' = [c \in Conns |-> "pending"]
    /\ mlog' = [c \in Conns |-> NoLog]
    /\ mfail' = [c \in Conns |-> FALSE]
    /\ replaced' = EmptySnapshot
    /\ UNCHANGED <<sideVars, env, now, outcome, memVars, ckpt, pubVars, subCount, track, updates>>

(* _async_update_data with no service connections: returns {} *)
EmptyCycle ==
    /\ phase = "Idle"
    /\ cycle < env.cycles
    /\ \E api \in ApiAnswers(env.accounts) :
         LET g == GetCachedServiceConnections(cache, api)
         IN  /\ ~g.failed
             /\ g.list = {}
             /\ cache' = g.cache
    /\ cycle' = cycle + 1
    /\ outcome' = "empty"
    /\ data' = Data(EmptySnapshot)
    /\ res' = [c \in Conns |-> "pending"]
    /\ mfail' = [c \in Conns |-> FALSE]
    /\ replaced' = EmptySnapshot
    /\ updates' = updates + 1
    /\ UNCHANGED <<sideVars, env, now, phase, pc, resp, hist, memVars, ckpt, usage_data,
                   subCount, mlog, track>>

(* _async_update_data when the connection list cannot be had: UpdateFailed *)
CycleFailed ==
    /\ phase = "Idle"
    /\ cycle < env.cycles
    /\ GetCachedServiceConnections(cache, ApiFail).failed
    /\ cycle' = cycle + 1
    /\ outcome' = "failed"
    /\ res' = [c \in Conns |-> "pending"]
    /\ mfail' = [c \in Conns |-> FALSE]
    /\ replaced' = EmptySnapshot
    /\ UNCHANGED <<sideVars, env, now, phase, cache, pc, resp, hist, memVars, ckpt, pubVars,
                   subCount, mlog, track, updates>>

(* _process_service_connection: the usage fetch *)
Fetch(c) ==
    /\ phase = "Gather"
    /\ pc[c] = "start"
    /\ \E r \in GetUsageResults(env.meter, now) :
         /\ resp' = [resp EXCEPT ![c] = r]
         /\ IF r.ok
            THEN /\ pc' = [pc EXCEPT ![c] = "fetched"]
                 /\ UNCHANGED <<res, track>>
            ELSE /\ pc' = [pc EXCEPT ![c] = "done"]
                 /\ res' = [res EXCEPT ![c] = "none"]
                 /\ track' = [track EXCEPT ![c] = IF env.tracking THEN TrackLost(@) ELSE @]
    /\ UNCHANGED <<sideVars, env, now, cycleVars, hist, memVars, ckpt, pubVars, subCount, mlog, mfail,
                   replaced, updates>>

(* A detector that enters the hours of the response into the seen window   *)
(* itself, before the merge                                                *)
DetectMarksSeen(c) ==
    /\ phase = "Gather"
    /\ pc[c] = "fetched"
    /\ LET found == DetectNewHistoricalData(seen[c], resp[c].recs, now)
       IN  /\ hist' = [hist EXCEPT ![c] = found]
           /\ pc' = [pc EXCEPT ![c] = IF found = {} THEN "merged" ELSE "detected"]
           /\ track' = [track EXCEPT ![c] = IF env.tracking
                                              THEN TrackDetect(@, resp[c].recs, found, now)
                                              ELSE @]
    /\ seen' = [seen EXCEPT ![c] = UpdateHistoricalState(@, resp[c].recs, now)]
    /\ UNCHANGED <<sideVars, env, now, cycleVars, resp, res, session, ckpt, pubVars, subCount,
                   mlog, mfail, replaced, updates>>

(* _process_service_connection: the detector *)
Detect(c) ==
    /\ phase = "Gather"
    /\ pc[c] = "fetched"
    /\ LET found == DetectNewHistoricalData(seen[c], resp[c].recs, now)
       IN  /\ hist' = [hist EXCEPT ![c] = found]
           /\ pc' = [pc EXCEPT ![c] = IF found = {} THEN "merged" ELSE "detected"]
           /\ track' = [track EXCEPT ![c] = IF env.tracking
                                              THEN TrackDetect(@, resp[c].recs, found, now)
                                              ELSE @]
    /\ UNCHANGED <<sideVars, env, now, cycleVars, resp, res, memVars, ckpt, pubVars, subCount,
                   mlog, mfail, replaced, updates>>

(* _process_service_connection: an exception the pipeline does not catch    *)
(* (a record without a start date): asyncio.gather keeps it as the result.  *)
PipelineRaises(c) ==
    /\ phase = "Gather"
    /\ pc[c] = "fetched"
    /\ resp[c].recs # {}
    /\ pc' = [pc EXCEPT ![c] = "done"]
    /\ res' = [res EXCEPT ![c] = "exc"]
    /\ track' = [track EXCEPT ![c] = IF env.tracking THEN TrackLost(@) ELSE @]
    /\ UNCHANGED <<sideVars, env, now, cycleVars, resp, hist, memVars, ckpt, pubVars, subCount,
                   mlog, mfail, replaced, updates>>

(* _process_service_connection: the statistics merge, its exception caught *)
Merge(c) ==
    /\ phase = "Gather"
    /\ pc[c] = "detected"
    /\ \E f \in MergeFaults(env.faults) :
         LET recorder == f.kind # "recorder"
             readOk == [m \in MetricSet |-> ~(f.kind = "read" /\ f.metric = m)]
             sinkOk == [m \in MetricSet |-> ~(f.kind = "sink" /\ f.metric = m)]
             r == InsertHistoricalStatistics(c, hist[c], recorder, readOk, sinkOk)
         IN  /\ session' = [session EXCEPT ![c] = r.session]
             /\ ckpt' = [ckpt EXCEPT ![c] = r.ckpt]
             /\ subCount' = [subCount EXCEPT ![c] = r.sub]
             /\ mfail' = [mfail EXCEPT ![c] = r.raised]
             /\ mlog' = [mlog EXCEPT ![c] = [on |-> recorder, batch |-> hist[c],
                                             count |-> IF r.raised THEN 0 ELSE r.count,
                                             entries |-> r.log]]
    /\ pc' = [pc EXCEPT ![c] = "merged"]
    /\ UNCHANGED <<sideVars, env, now, cycleVars, resp, hist, res, seen, pubVars, track, replaced, updates>>

(* A pipeline that writes its response into the published mapping itself *)
UpdateStatePublishes(c) ==
    /\ phase = "Gather"
    /\ pc[c] = "merged"
    /\ seen' = [seen EXCEPT ![c] = UpdateHistoricalState(@, resp[c].recs, now)]
    /\ pc' = [pc EXCEPT ![c] = "done"]
    /\ res' = [res EXCEPT ![c] = "ok"]
    /\ mlog' = [mlog EXCEPT ![c] = NoLog]
    /\ usage_data' = [usage_data EXCEPT ![c] = Entry(resp[c].recs, cycle)]
    /\ UNCHANGED <<sideVars, env, now, cycleVars, resp, hist, session, ckpt, data, subCount,
                   mfail, track, replaced, updates>>

(* _process_service_connection: the seen-window update and the return *)
UpdateState(c) ==
    /\ phase = "Gather"
    /\ pc[c] = "merged"
    /\ seen' = [seen EXCEPT ![c] = UpdateHistoricalState(@, resp[c].recs, now)]
    /\ pc' = [pc EXCEPT ![c] = "done"]
    /\ res' = [res EXCEPT ![c] = "ok"]
    /\ mlog' = [mlog EXCEPT ![c] = NoLog]
    /\ UNCHANGED <<sideVars, env, now, cycleVars, resp, hist, session, ckpt, pubVars, subCount,
                   mfail, track, replaced, updates>>

(* _async_update_data after asyncio.gather: collect, publish, clean up *)
Publish ==
    /\ phase = "Gather"
    /\ \A c \in Conns : pc[c] \in {"idle", "done"}
    /\ LET collected == CollectResults(res, resp, cycle)
           update_count == SnapshotSize(collected)
       IN  /\ usage_data' = collected
           /\ data' = Data(collected)
           /\ seen' = IF update_count > 0 /\ update_count % CleanupEvery = 0
                      THEN CleanupHistoricalState(seen, now)
                      ELSE seen
    /\ phase' = "Idle"
    /\ outcome' = "published"
    /\ pc' = [c \in Conns |-> "idle"]
    /\ resp' = [c \in Conns |-> NoResp]
    /\ hist' = [c \in Conns |-> {}]
    /\ replaced' = usage_data
    /\ updates' = updates + 1
    /\ UNCHANGED <<sideVars, env, now, cycle, cache, res, session, ckpt, subCount, mlog, mfail, track>>

(* A snapshot that is thrown away when the cycle is given up *)
CycleAbortedClears ==
    /\ phase = "Gather"
    /\ \A c \in Conns : pc[c] \in {"idle", "start"}
    /\ phase' = "Idle"
    /\ outcome' = "failed"
    /\ usage_data' = EmptySnapshot
    /\ data' = NoData
    /\ pc' = [c \in Conns |-> "idle"]
    /\ resp' = [c \in Conns |-> NoResp]
    /\ hist' = [c \in Conns |-> {}]
    /\ res' = [c \in Conns |-> "pending"]
    /\ mlog' = [c \in Conns |-> NoLog]
    /\ mfail' = [c \in Conns |-> FALSE]
    /\ replaced' = EmptySnapshot
    /\ UNCHANGED <<sideVars, env, now, cycle, cache, memVars, ckpt, subCount, track, updates>>

(* A cycle that is given up with its pipelines left where they were *)
CycleAbortedLeavesPipelines ==
    /\ phase = "Gather"
    /\ \A c \in Conns : pc[c] \in {"idle", "start"}
    /\ phase' = "Idle"
    /\ outcome' = "failed"
    /\ mlog' = [c \in Conns |-> NoLog]
    /\ mfail' = [c \in Conns |-> FALSE]
    /\ replaced' = EmptySnapshot
    /\ UNCHANGED <<sideVars, env, now, cycle, cache, pipeVars, memVars, ckpt, pubVars,
                   subCount, track, updates>>

(* _async_update_data when the await of asyncio.gather raises (the update   *)
(* is cancelled while the pipelines wait for their usage fetch): the cycle  *)
(* ends before any result is collected.                                     *)
CycleAborted ==
    /\ phase = "Gather"
    /\ \A c \in Conns : pc[c] \in {"idle", "start"}
    /\ phase' = "Idle"
    /\ outcome' = "failed"
    /\ pc' = [c \in Conns |-> "idle"]
    /\ resp' = [c \in Conns |-> NoResp]
    /\ hist' = [c \in Conns |-> {}]
    /\ res' = [c \in Conns |-> "pending"]
    /\ mlog' = [c \in Conns |-> NoLog]
    /\ mfail' = [c \in Conns |-> FALSE]
    /\ replaced' = EmptySnapshot
    /\ track' = [c \in Conns |->
                    IF env.tracking /\ pc[c] = "start"
                    THEN TrackLost(track[c]) ELSE track[c]]
    /\ UNCHANGED <<sideVars, env, now, cycle, cache, memVars, ckpt, pubVars, subCount, updates>>

(* The clock, between two cycles *)
Tick ==
    /\ phase = "Idle"
    /\ now < MaxNow
    /\ now' = NextHour(now)
    /\ cache' = [cache EXCEPT !.fresh = FALSE]
    /\ UNCHANGED <<sideVars, env, phase, cycle, outcome, pipeVars, memVars, ckpt, pubVars, histVars>>

(* Five minutes pass: the cached connection list is past its TTL *)
ExpireCache ==
    /\ phase = "Idle"
    /\ cache.set /\ cache.fresh
    /\ cache' = [cache EXCEPT !.fresh = FALSE]
    /\ UNCHANGED <<sideVars, env, now, phase, cycle, outcome, pipeVars, memVars, ckpt, pubVars,
                   histVars>>

(* The process restarts: the coordinator is constructed anew, the          *)
(* statistics backend keeps what it holds.                                  *)
Restart ==
    /\ phase = "Idle"
    /\ outcome # "none"
    /\ outcome' = "none"
    /\ cache' = NoCache
    /\ res' = [c \in Conns |-> "pending"]
    /\ seen' = [c \in Conns |-> {}]
    /\ session' = [c \in Conns |-> {}]
    /\ usage_data' = EmptySnapshot
    /\ data' = NoData
    /\ mfail' = [c \in Conns |-> FALSE]
    /\ replaced' = EmptySnapshot
    /\ updates' = 0
    /\ UNCHANGED <<sideVars, env, now, phase, cycle, pc, resp, hist, ckpt, subCount, mlog, track>>

Next ==
    \/ StartCycle
    \/ EmptyCycle
    \/ CycleFailed
    \/ \E c \in Conns : Fetch(c)
    \/ \E c \in Conns : Detect(c)
    \/ \E c \in Conns : PipelineRaises(c)
    \/ \E c \in Conns : Merge(c)
    \/ \E c \in Conns : UpdateState(c)
    \/ Publish
    \/ CycleAborted
    \/ Tick
    \/ ExpireCache
    \/ Restart

Spec == Init /\ [][Next]_vars

SpecDetect == InitDetect /\ [][Next]_vars

SpecFanOut == InitFanOut /\ [][Next]_vars

SpecLate == InitLate /\ [][Next]_vars

----------------------------------------------------------------------------
(* _get_cached_service_connections, step by step: the check of the cache    *)
(* and the write of a fetched list are each done under the cache lock, the  *)
(* call of the API between them is awaited, and other callers run meanwhile *)

(* The cache holds a list younger than the cache duration *)
CacheValidShort(list, time, t) ==
    list # NoList /\ time # NoTime /\ t - time < CacheDurationMinutes - 1

CacheValid(list, time, t) ==
    list # NoList /\ time # NoTime /\ t - time < CacheDurationMinutes

(* A write that never moves the cache time backwards *)
FetchSucceededKeepsNewerTime(list, time, n, t) ==
    [list |-> n, time |-> IF time > t THEN time ELSE t, ret |-> n, failed |-> FALSE]

(* The API returned list n to a caller that entered at t: list and time are *)
(* written together, the fetched list is returned.                          *)
FetchSucceeded(list, time, n, t) ==
    [list |-> n, time |-> t, ret |-> n, failed |-> FALSE]

(* A fallback that gives up when the cached list has expired *)
FetchFailedDropsExpired(list, time, t) ==
    IF CacheValid(list, time, t)
    THEN [list |-> list, time |-> time, ret |-> list, failed |-> FALSE]
    ELSE [list |-> NoList, time |-> NoTime, ret |-> NoList, failed |-> TRUE]

(* The API returned None or raised: the cached list, if there is one, is    *)
(* returned whatever its age; t is the time of the fallback.                *)
FetchFailed(list, time, t) ==
    [list |-> list, time |-> time, ret |-> list, failed |-> list = NoList]

(* A caller enters: the cache is checked; a miss starts a call of the API *)
Enter(k) ==
    /\ caller[k].pc # "fetching"
    /\ IF CacheValid(cached_service_connections, service_connections_cache_time, wall)
       THEN /\ caller' = [caller EXCEPT ![k] = [pc |-> "returned", now |-> wall, call |-> 0,
                                                ret |-> cached_service_connections]]
            /\ UNCHANGED apiCalls
       ELSE /\ Len(apiCalls) < MaxApiCalls
            /\ apiCalls' = Append(apiCalls, [now |-> wall, result |-> "pending"])
            /\ caller' = [caller EXCEPT ![k] = [pc |-> "fetching", now |-> wall,
                                                call |-> Len(apiCalls) + 1, ret |-> NoList]]
    /\ UNCHANGED <<coordinatorVars, wall, cached_service_connections,
                   service_connections_cache_time, sensorVars, setupVars, markVars, flowVars,
                   probeVars>>

(* The call of the API returns to the caller: a list, or a failure *)
FetchReturns(k) ==
    /\ caller[k].pc = "fetching"
    /\ \E ok \in BOOLEAN :
         LET r == IF ok
                  THEN FetchSucceeded(cached_service_connections,
                                      service_connections_cache_time,
                                      caller[k].call, caller[k].now)
                  ELSE FetchFailed(cached_service_connections,
                                   service_connections_cache_time, wall)
         IN  /\ cached_service_connections' = r.list
             /\ service_connections_cache_time' = r.time
             /\ caller' = [caller EXCEPT ![k].pc = IF r.failed THEN "failed" ELSE "returned",
                                         ![k].ret = r.ret]
             /\ apiCalls' = [apiCalls EXCEPT ![caller[k].call].result =
                                                IF ok THEN "ok" ELSE "failed"]
    /\ UNCHANGED <<coordinatorVars, wall, sensorVars, setupVars, markVars, flowVars, probeVars>>

(* A minute passes *)
WallTick ==
    /\ wall < MaxWall
    /\ wall' = wall + 1
    /\ UNCHANGED <<coordinatorVars, cached_service_connections,
                   service_connections_cache_time, caller, apiCalls, sensorVars,
                   setupVars, markVars, flowVars, probeVars>>

NextList ==
    \/ \E k \in Callers : Enter(k)
    \/ \E k \in Callers : FetchReturns(k)
    \/ WallTick

(* The connection cache of a coordinator whose poll cycle is at rest *)
SpecList == InitWith({1}, {0}, {}, FALSE) /\ [][NextList]_vars

----------------------------------------------------------------------------
(* The statistics merge *)

(* C1: over any sequence of poll cycles and restarts, no point (connection, *)
(* metric, hour) is submitted to the statistics sink more than once, so no  *)
(* record's value enters a metric's cumulative sum twice.                   *)
NoPointSubmittedTwice ==
    \A c \in Conns, m \in MetricSet, h \in Hours : subCount[c][m][h] <= 1

RECURSIVE SumOfValues(_, _)
SumOfValues(m, S) ==
    IF S = {} THEN 0
    ELSE LET h == CHOOSE x \in S : TRUE
         IN  MetricValue(m, h) + SumOfValues(m, S \ {h})

(* The merge of connection c has just run, and its pass for metric m read a *)
(* persisted checkpoint.                                                    *)
ReadCheckpoint(c, m) ==
    /\ pc[c] = "merged"
    /\ mlog[c].on
    /\ mlog[c].entries[m].state \in {"done", "raised"}
    /\ mlog[c].entries[m].read.exists

(* C2: given the persisted checkpoint (T, S) of a metric, a merge hands the *)
(* sink exactly the records of the batch later than T, in ascending order,   *)
(* each with its value and with the sum S plus the values up to it; when    *)
(* no record is later than T nothing is handed over and the checkpoint is   *)
(* what it was.                                                             *)
MergeContinuesFromCheckpoint ==
    \A c \in Conns, m \in MetricSet :
        ReadCheckpoint(c, m) =>
            LET e == mlog[c].entries[m]
                T == e.read.start
                S == e.read.sum
                later == {h \in mlog[c].batch : h > T}
            IN  /\ Len(e.points) = Cardinality(later)
                /\ \A i \in 1 .. Len(e.points) :
                      /\ e.points[i].start \in later
                      /\ i > 1 => e.points[i - 1].start < e.points[i].start
                      /\ e.points[i].state = MetricValue(m, e.points[i].start)
                      /\ e.points[i].sum =
                            S + SumOfValues(m, {h \in later : h <= e.points[i].start})
                /\ later = {} => ckpt[c][m] = e.read

(* C2 happens: a batch holding a record at the checkpoint and a later one   *)
(* was merged; the later one alone was accepted by the sink.                *)
MergedPastCheckpoint ==
    \E c \in Conns, m \in MetricSet :
        /\ ReadCheckpoint(c, m)
        /\ mlog[c].entries[m].state = "done"
        /\ mlog[c].entries[m].read.sum > 0
        /\ \E h \in mlog[c].batch : h <= mlog[c].entries[m].read.start
        /\ Len(mlog[c].entries[m].points) >= 1

----------------------------------------------------------------------------
(* The detector *)

DetectStep(c) == pc[c] = "fetched" /\ pc'[c] \in {"detected", "merged"}

UpdateStep(c) == pc[c] = "merged" /\ pc'[c] = "done"

(* The detector of connection c has run in this cycle, the seen window is   *)
(* still the one it read.                                                   *)
Detected(c) == phase = "Gather" /\ pc[c] \in {"detected", "merged"}

(* The poll returns for connection c what the published snapshot holds      *)
SameApiData(c) == usage_data[c].present /\ usage_data[c].recs = resp[c].recs

RetentionEdge == {h \in Hours : h <= now - RetentionHours}

(* C3, as stated: for every record set R, detect on R, the seen-window      *)
(* update on R, detect on R again: the second detect returns nothing; and a *)
(* second poll over the same API data detects nothing to merge.             *)
RedetectFindsNothing ==
    [][\A c \in Conns :
         /\ UpdateStep(c) =>
               DetectNewHistoricalData(seen'[c], resp[c].recs, now) = {}
         /\ DetectStep(c) /\ SameApiData(c) => hist'[c] = {}]_vars

(* C3, amended: the second detect returns none of the records that lie      *)
(* inside the 7-day retention window; it returns again only records at or   *)
(* beyond the window's edge, which the update does not keep.                *)
RedetectFindsOnlyRetentionEdge ==
    [][\A c \in Conns :
         /\ UpdateStep(c) =>
               DetectNewHistoricalData(seen'[c], resp[c].recs, now) \subseteq RetentionEdge
         /\ DetectStep(c) /\ SameApiData(c) => hist'[c] \subseteq RetentionEdge]_vars

(* C3 happens: a second poll returns the data of the first, with a settled  *)
(* record the first poll's detection emitted; the detector passes it over.  *)
SecondPollPassesOver ==
    \E c \in Conns :
        /\ Detected(c)
        /\ SameApiData(c)
        /\ hist[c] = {}
        /\ \E h \in resp[c].recs :
              IsHistorical(h, now) /\ h \in seen[c] /\ track[c][h] = "emitted"

(* C4: a record first returned while provisional and returned by every poll *)
(* since is emitted by some poll once it is old enough: it does not leave   *)
(* the 7 days the API is asked for with a poll having found it old enough   *)
(* and none having emitted it.                                              *)
ProvisionalRecordEmittedInTime ==
    \A c \in Conns, h \in Hours :
        ~(/\ track[c][h] = "held"
          /\ total_gallons(h) > 0
          /\ now - h > FetchWindowHours)

(* C5, as stated: every record more than one unit old is settled, whatever  *)
(* its volume; when new it is emitted.                                      *)
SettledAfterOneUnit ==
    \A c \in Conns :
        Detected(c) =>
            \A h \in resp[c].recs :
                now - h > UnitHours /\ h \notin seen[c] => h \in hist[c]

(* C5, amended: every record more than two hours old with a total volume    *)
(* above 0 is settled, and emitted when new; a record with total volume 0   *)
(* is not settled at any age.                                               *)
SettledAfterTwoHoursWithVolume ==
    \A c \in Conns :
        Detected(c) =>
            \A h \in resp[c].recs :
                /\ now - h > HistoricalAgeHours /\ total_gallons(h) > 0 /\ h \notin seen[c]
                      => h \in hist[c]
                /\ total_gallons(h) = 0 => h \notin hist[c]

(* C5 happens: one detection with a new record with volume emitted and a    *)
(* new record of the same age class without volume left out.                *)
VolumeDecidesOldRecords ==
    \E c \in Conns :
        /\ Detected(c)
        /\ \E h, z \in resp[c].recs :
              /\ h \in hist[c]
              /\ z \notin seen[c] /\ z \notin hist[c]
              /\ total_gallons(z) = 0 /\ now - z > HistoricalAgeHours

(* C6, as stated: a record exactly one unit old is settled, and emitted     *)
(* when new, if and only if its total volume is above 0.                    *)
OneUnitOldSettledByVolume ==
    \A c \in Conns :
        Detected(c) =>
            \A h \in resp[c].recs :
                now - h = UnitHours /\ h \notin seen[c]
                    => (h \in hist[c] <=> total_gallons(h) > 0)

(* C6, amended: a record exactly one hour old is never emitted, whatever    *)
(* its volume; a new record more than two hours old (the previous day's)    *)
(* is emitted if and only if its total volume is above 0.                   *)
OneHourOldNeverEmitted ==
    \A c \in Conns :
        Detected(c) =>
            \A h \in resp[c].recs :
                /\ now - h = UnitHours => h \notin hist[c]
                /\ now - h > HistoricalAgeHours /\ h \notin seen[c]
                      => (h \in hist[c] <=> total_gallons(h) > 0)

(* C6 happens: a new record one hour old with volume is left out by a       *)
(* detection that emits an older one.                                       *)
OneHourOldLeftOut ==
    \E c \in Conns :
        /\ Detected(c)
        /\ hist[c] # {}
        /\ \E h \in resp[c].recs :
              /\ now - h = UnitHours
              /\ total_gallons(h) > 0
              /\ h \notin seen[c] /\ h \notin hist[c]

----------------------------------------------------------------------------
(* The published snapshot *)

PublishStep == phase = "Gather" /\ phase' = "Idle"

(* The last cycle has published, nothing has happened to the coordinator    *)
(* since but the passing of time.                                           *)
Published == phase = "Idle" /\ outcome = "published"

OfOneCycle(snap) ==
    \A c, d \in Conns : snap[c].present /\ snap[d].present => snap[c].cyc = snap[d].cyc

NotOfRunningCycle(snap) ==
    \A c \in Conns :
        snap[c].present => IF phase = "Gather" THEN snap[c].cyc < cycle
                           ELSE snap[c].cyc <= cycle

(* C7: whenever it is read, during a cycle or between two, the published    *)
(* mapping is the complete mapping of one cycle: its entries are all of the *)
(* same cycle, and none is of the cycle still running.                      *)
SnapshotOfOneCycle ==
    /\ OfOneCycle(usage_data) /\ NotOfRunningCycle(usage_data)
    /\ OfOneCycle(data.snap) /\ NotOfRunningCycle(data.snap)

(* C7 happens: in the second cycle a pipeline has finished with a response  *)
(* that differs from the published one, another is still running, and the  *)
(* published mapping holds both connections' entries of the first cycle.    *)
ReadMidCycle ==
    /\ phase = "Gather"
    /\ \A c \in Conns : usage_data[c].present /\ usage_data[c].cyc = cycle - 1
    /\ \E c, d \in Conns :
          /\ pc[c] = "done" /\ res[c] = "ok" /\ resp[c].recs # usage_data[c].recs
          /\ pc[d] \notin {"idle", "done"}

PipelineFailed(c) == res[c] \in {"none", "exc"} \/ mfail[c]

(* C8: when one connection's pipeline fails in a cycle, every other         *)
(* connection's pipeline has run to its end when the cycle publishes, and   *)
(* the usage it fetched is in the snapshot the cycle publishes.             *)
OthersPublishedDespiteFailure ==
    [][PublishStep =>
         \A c \in Conns :
             (\E d \in Conns \ {c} : pc[d] = "done" /\ PipelineFailed(d)) =>
                 /\ pc[c] = "done" => res[c] # "pending"
                 /\ res[c] = "ok" =>
                       /\ usage_data'[c] = Entry(resp[c].recs, cycle)
                       /\ data'.valid /\ data'.snap[c] = Entry(resp[c].recs, cycle)]_vars

(* C8 happens: a cycle has published in which one pipeline ended with an    *)
(* exception and the other's records are in the snapshot.                   *)
PublishedBesideException ==
    /\ Published
    /\ \E c, d \in Conns :
          /\ res[d] = "exc"
          /\ res[c] = "ok"
          /\ usage_data[c] = Entry({0}, cycle)

(* C9, as stated: a connection whose usage fetch fails or whose statistics  *)
(* merge raises has no entry in the snapshot its cycle publishes.           *)
FailedConnectionAbsent ==
    Published =>
        \A c \in Conns : PipelineFailed(c) => ~usage_data[c].present

(* C9, amended: a connection whose usage fetch fails, or whose pipeline     *)
(* ends with an exception, has no entry in the snapshot its cycle           *)
(* publishes; a connection whose statistics merge raises has its entry,     *)
(* of this cycle.                                                           *)
FetchFailureAbsentMergeFailurePresent ==
    Published =>
        \A c \in Conns :
            /\ res[c] \in {"none", "exc"} =>
                  ~usage_data[c].present /\ ~data.snap[c].present
            /\ res[c] = "ok" /\ mfail[c] =>
                  /\ usage_data[c].present /\ usage_data[c].cyc = cycle
                  /\ data.snap[c] = usage_data[c]

(* C9 happens: one cycle with a failed fetch and a raised merge *)
FetchAndMergeFailedInOneCycle ==
    /\ Published
    /\ \E c, d \in Conns :
          /\ res[c] = "none" /\ ~usage_data[c].present
          /\ res[d] = "ok" /\ mfail[d] /\ usage_data[d].present

(* C10, as stated: after a cycle in which one connection's fetch or merge   *)
(* fails while another succeeds, the snapshot holds the failed connection's *)
(* entry of its last successful cycle, and the others' entries are of this  *)
(* cycle.                                                                   *)
FailedConnectionKeepsStale ==
    Published =>
        \A c \in Conns :
            (/\ res[c] = "none" \/ mfail[c]
             /\ \E d \in Conns \ {c} : res[d] = "ok" /\ ~mfail[d]) =>
                /\ replaced[c].present => usage_data[c] = replaced[c]
                /\ \A d \in Conns \ {c} :
                      res[d] = "ok" /\ ~mfail[d] => usage_data[d].cyc = cycle

(* C10, amended: after a cycle in which one connection's fetch fails while  *)
(* another succeeds, the snapshot has no entry for the failed connection,   *)
(* whatever it held before; every entry it has, that of a connection whose  *)
(* merge failed included, is of this cycle.                                 *)
NoStaleEntryAfterFailure ==
    Published =>
        \A c \in Conns :
            /\ res[c] = "none" => usage_data[c] = Absent
            /\ usage_data[c].present => usage_data[c].cyc = cycle /\ res[c] = "ok"

(* C10 happens: a connection with an entry in the snapshot fails its fetch  *)
(* in the next cycle, the other connection succeeds: the entry is gone.     *)
StaleEntryDropped ==
    /\ Published
    /\ \E c, d \in Conns :
          /\ res[c] = "none" /\ replaced[c].present /\ ~usage_data[c].present
          /\ res[d] = "ok" /\ ~mfail[d] /\ usage_data[d].present

----------------------------------------------------------------------------
(* Failure of a whole cycle *)

(* The cycle ends as a failure: the connection list is not to be had, or    *)
(* the orchestration raises.                                                *)
CycleFailStep ==
    /\ outcome' = "failed"
    /\ \/ phase = "Idle" /\ cycle' = cycle + 1
       \/ phase = "Gather" /\ phase' = "Idle"

(* C11: a cycle that fails as a whole leaves the published snapshot as it   *)
(* was, for the sensors (data) and for the list-usage operation             *)
(* (usage_data).                                                            *)
FailedCycleKeepsSnapshot ==
    [][CycleFailStep => usage_data' = usage_data /\ data' = data]_vars

(* C11 happens: the last cycle failed, the snapshot of an earlier cycle,    *)
(* with records, is there to be read.                                       *)
FailedAfterSuccess ==
    /\ phase = "Idle"
    /\ outcome = "failed"
    /\ \E c \in Conns :
          /\ usage_data[c].present /\ usage_data[c].recs # {}
          /\ usage_data[c].cyc < cycle
          /\ data.valid /\ data.snap[c] = usage_data[c]

----------------------------------------------------------------------------
(* The merge, metric by metric *)

MergeStep(c) == pc[c] = "detected" /\ pc'[c] = "merged"

(* The key of metric m for the batch at hand was merged before in this      *)
(* process lifetime.                                                        *)
KeyMergedBefore(c, m) == InsertionKey(m, hist[c]) \in session[c]

(* C12: a second merge, within one process lifetime, of a batch with the    *)
(* key (metric, minimum, maximum) of an earlier one submits nothing for     *)
(* the metric; with every metric's key merged before it returns 0.          *)
SameKeyMergedOnce ==
    [][\A c \in Conns :
         MergeStep(c) =>
             /\ \A m \in MetricSet :
                   KeyMergedBefore(c, m) =>
                       /\ subCount'[c][m] = subCount[c][m]
                       /\ ckpt'[c][m] = ckpt[c][m]
                       /\ mlog'[c].entries[m].points = <<>>
             /\ (\A m \in MetricSet : KeyMergedBefore(c, m)) => mlog'[c].count = 0]_vars

(* C12 happens: a merge has run whose keys had all been merged before *)
SecondMergeOfSameKey ==
    \E c \in Conns :
        /\ pc[c] = "merged"
        /\ mlog[c].on /\ mlog[c].batch # {}
        /\ \A m \in MetricSet :
              /\ InsertionKey(m, mlog[c].batch) \in session[c]
              /\ mlog[c].entries[m].state = "skipped"
        /\ mlog[c].count = 0

(* The pass of the merge of connection c for metric m read a checkpoint     *)
(* that lies more than the tolerance after the oldest record of the batch.  *)
CheckpointFarAhead(c, m) ==
    /\ ReadCheckpoint(c, m)
    /\ mlog[c].entries[m].read.start - Min(mlog[c].batch) > CheckpointToleranceHours

(* C13: a checkpoint more than the tolerance after the oldest incoming      *)
(* record is taken as corrupt: the sum is reset to 0 and every record of    *)
(* the batch is inserted, the running sum starting from 0.                  *)
CorruptCheckpointReset ==
    \A c \in Conns, m \in MetricSet :
        CheckpointFarAhead(c, m) =>
            LET points == mlog[c].entries[m].points
            IN  /\ Len(points) = Cardinality(mlog[c].batch)
                /\ \A i \in 1 .. Len(points) :
                      points[i].sum =
                          SumOfValues(m, {h \in mlog[c].batch : h <= points[i].start})

----------------------------------------------------------------------------
(* The seen window *)

(* The seen-window update of connection c has just run in this cycle *)
Updated(c) == phase = "Gather" /\ pc[c] = "done" /\ res[c] = "ok"

(* C14: after every seen-window update, whatever the clock did between the  *)
(* updates, the connection's seen window holds no hour older than the       *)
(* retention boundary, now minus 7 days.                                    *)
SeenWithinRetentionAfterUpdate ==
    \A c \in Conns :
        Updated(c) => \A h \in seen[c] : h >= now - RetentionHours

----------------------------------------------------------------------------
(* Failures inside one merge *)

(* The merge of connection c has just run with the recorder there *)
Merged(c) == pc[c] = "merged" /\ mlog[c].on

(* C15: a failure at one metric does not keep the merge from the remaining  *)
(* metrics of the batch: every metric is processed.                         *)
EveryMetricProcessed ==
    \A c \in Conns :
        Merged(c) => \A m \in MetricSet : mlog[c].entries[m].state # "unreached"

(* C16: when the sink rejects a submitted series the merge call raises: the *)
(* failure reaches the caller, no count of inserted points is returned.     *)
SinkRejectionRaises ==
    \A c \in Conns :
        Merged(c) =>
            /\ (\E m \in MetricSet : mlog[c].entries[m].state = "raised") <=> mfail[c]
            /\ mfail[c] => mlog[c].count = 0

(* C16 happens: the sink rejected the second metric's series after it took  *)
(* the first's: the call raised.                                            *)
RaisedAfterPartialInsert ==
    \E c \in Conns :
        /\ Merged(c)
        /\ mfail[c]
        /\ mlog[c].entries[Metrics[1]].state = "done"
        /\ mlog[c].entries[Metrics[1]].points # <<>>
        /\ mlog[c].entries[Metrics[2]].state = "raised"

----------------------------------------------------------------------------
(* The recorder is not there *)

(* The merge of connection c has just run on a batch, without the recorder *)
MergedWithoutRecorder(c) ==
    pc[c] = "merged" /\ ~mlog[c].on /\ mlog[c].batch # {}

(* C17: with the recorder not there the merge submits nothing and returns   *)
(* 0 without raising; the cycle goes on: the seen window takes the hours of *)
(* the response that lie within the retention window, and the connection's  *)
(* usage is published.                                                      *)
CycleGoesOnWithoutRecorder ==
    [][\A c \in Conns :
          /\ MergeStep(c) /\ ~mlog'[c].on =>
                /\ ckpt'[c] = ckpt[c]
                /\ subCount'[c] = subCount[c]
                /\ mlog'[c].count = 0
                /\ \A m \in MetricSet : mlog'[c].entries[m].points = <<>>
                /\ ~mfail'[c]
          /\ UpdateStep(c) /\ MergedWithoutRecorder(c) =>
                /\ seen'[c] = UpdateHistoricalState(seen[c], resp[c].recs, now)
                /\ \A h \in resp[c].recs :
                      h > now - RetentionHours /\ h <= now => h \in seen'[c]
                /\ res'[c] = "ok"
          /\ PublishStep /\ outcome' = "published" /\ pc[c] = "done"
                /\ res[c] = "ok" /\ hist[c] # {} =>
                /\ usage_data'[c] = Entry(resp[c].recs, cycle)
                /\ data' = Data(usage_data')
      ]_vars

(* C17 happens: a batch of settled records went through a merge without    *)
(* the recorder.                                                            *)
BatchMergedWithoutRecorder ==
    \E c \in Conns : MergedWithoutRecorder(c) /\ ckpt[c] = [m \in MetricSet |-> NoStat]

----------------------------------------------------------------------------
(* The read of the checkpoint fails *)

(* The step is the merge of connection c, and its pass for metric m could   *)
(* not read the checkpoint the sink holds.                                  *)
ReadFailedStep(c, m) ==
    /\ MergeStep(c)
    /\ mlog'[c].on
    /\ ckpt[c][m].exists
    /\ mlog'[c].entries[m].state \in {"done", "raised"}
    /\ ~mlog'[c].entries[m].read.exists

(* C18: when the read of a metric's checkpoint fails, the merge submits no  *)
(* point for that metric, the sink holds for it what it held, and the merge *)
(* does not raise for it.                                                   *)
ReadFailureSkipsMetric ==
    [][\A c \in Conns : \A m \in MetricSet :
          ReadFailedStep(c, m) =>
              /\ mlog'[c].entries[m].points = <<>>
              /\ ckpt'[c][m] = ckpt[c][m]
              /\ mlog'[c].entries[m].state = "done"
      ]_vars

----------------------------------------------------------------------------
(* Records whose value is zero *)

(* The sum the series of metric m stood at before its i-th point *)
SumBefore(e, i) == IF i = 1 THEN ExistingSum(e.read) ELSE e.points[i - 1].sum

(* C19: the merger passes over no record for its value being zero: a        *)
(* settled record later than the checkpoint read, with the value 0 for the  *)
(* metric, gives a point with its timestamp, the state 0 and the sum left   *)
(* as it stood, and the checkpoint the sink then holds is no older than it. *)
ZeroValueRecordSubmitted ==
    \A c \in Conns : \A m \in MetricSet :
        Merged(c) /\ mlog[c].entries[m].state = "done" =>
            LET e == mlog[c].entries[m]
            IN  \A h \in mlog[c].batch :
                    h > LastTime(e.read) /\ MetricValue(m, h) = 0 =>
                        /\ \E i \in 1 .. Len(e.points) :
                              /\ e.points[i].start = h
                              /\ e.points[i].state = 0
                              /\ e.points[i].sum = SumBefore(e, i)
                        /\ ckpt[c][m].exists
                        /\ ckpt[c][m].start >= h

(* C19 happens: a record with the value 0 was merged after a checkpoint     *)
(* with a sum above 0.                                                      *)
ZeroValueAfterCheckpoint ==
    \E c \in Conns : \E m \in MetricSet :
        /\ Merged(c)
        /\ mlog[c].entries[m].state = "done"
        /\ mlog[c].entries[m].read.exists
        /\ mlog[c].entries[m].read.sum > 0
        /\ \E h \in mlog[c].batch :
              /\ h > mlog[c].entries[m].read.start
              /\ MetricValue(m, h) = 0
              /\ ckpt[c][m] = Stat(h, mlog[c].entries[m].read.sum)

----------------------------------------------------------------------------
(* The metrics of a merge *)

(* The merge of connection c has just run to its end on a batch, and no     *)
(* metric had a checkpoint.                                                 *)
FirstMerge(c) ==
    /\ Merged(c)
    /\ mlog[c].batch # {}
    /\ \A m \in MetricSet :
          mlog[c].entries[m].state = "done" /\ ~mlog[c].entries[m].read.exists

(* The metrics the merge of connection c has handed a series for *)
SubmittedMetrics(c) == {m \in MetricSet : mlog[c].entries[m].points # <<>>}

(* C20: the merge of a batch with no checkpoint before it hands the sink    *)
(* one series for each of four metrics: total volume, irrigation volume,    *)
(* irrigation events and total cost.                                        *)
FourSeriesWithCost ==
    \A c \in Conns :
        FirstMerge(c) =>
            {"total_gallons", "irrigation_gallons", "irrigation_events", "total_cost"}
                \subseteq SubmittedMetrics(c)

----------------------------------------------------------------------------
(* The sensors of one connection: sensor.py and binary_sensor.py.  Dates    *)
(* are day numbers; a month has DaysPerMonth days.  A usage record has the  *)
(* date its interval starts on (a UTC date, which may lie a day ahead of    *)
(* the local current date), its readings and its leak flag; the list is in  *)
(* the order of the API, ascending by start.                                *)

MaxDay == 4
MaxShort == 3
MaxRecords == 8
DaysPerMonth == 2

WeeklyDays == 7

Days == 0 .. MaxDay
Todays == 1 .. (MaxDay - 1)

UsageData(d, t, leak) ==
    [start_date |-> d, total_gallons |-> t,
     irrigation_gallons |-> IF t = 0 THEN 0 ELSE 1 + (d % 2),
     irrigation_events |-> IF t = 0 THEN 0 ELSE 1 + (d % 3),
     is_leaking |-> leak]

Ascending(seq) ==
    \A i \in 1 .. (Len(seq) - 1) : seq[i].start_date <= seq[i + 1].start_date

(* Lists of up to MaxShort records of any date, reading and leak flag, and  *)
(* longer ones, up to MaxRecords, of plain records of two dates             *)
ShortRecords == {UsageData(d, t, l) : d \in Days, t \in {0, 2}, l \in BOOLEAN}
PlainRecords == {UsageData(d, t, FALSE) : d \in {0, MaxDay - 1}, t \in {0, 1}}

UsageLists ==
    UNION {{seq \in [1 .. n -> ShortRecords] : Ascending(seq)} : n \in 0 .. MaxShort}
    \cup UNION {{seq \in [1 .. n -> PlainRecords] : Ascending(seq)} :
                  n \in (MaxShort + 1) .. MaxRecords}

RECURSIVE SumTotalGallons(_)
SumTotalGallons(seq) ==
    IF seq = <<>> THEN 0 ELSE Head(seq).total_gallons + SumTotalGallons(Tail(seq))

(* A filter that keeps the record of yesterday whatever its reading *)
FilterKeepsYesterday(usage, t) ==
    LET Keep(r) == r.start_date < t
    IN  SelectSeq(usage, Keep)

(* _filter_recent_incomplete_data *)
FilterRecentIncompleteData(usage, t) ==
    LET yesterday == t - 1
        Keep(r) == \/ r.start_date < yesterday
                   \/ r.start_date = yesterday /\ r.total_gallons > 0
    IN  SelectSeq(usage, Keep)

(* _get_latest_non_recent_value *)
GetLatestNonRecentValue(u, sensor_key, t) ==
    IF ~u.present \/ u.usage_data = <<>> THEN NoneValue
    ELSE LET filtered_data == FilterRecentIncompleteData(u.usage_data, t)
         IN  IF filtered_data = <<>> THEN NoneValue
             ELSE LET latest_data == filtered_data[Len(filtered_data)]
                  IN  CASE sensor_key = "irrigation_gallons" -> latest_data.irrigation_gallons
                        [] sensor_key = "irrigation_events" -> latest_data.irrigation_events
                        [] sensor_key = "daily_total" -> latest_data.total_gallons

(* An aggregate over the whole list *)
GetAggregatedUsageOfAll(u, days) ==
    IF ~u.present \/ u.usage_data = <<>> THEN 0
    ELSE SumTotalGallons(u.usage_data)

(* _get_aggregated_usage, for a sensor other than irrigation_gallons *)
GetAggregatedUsage(u, days) ==
    IF ~u.present \/ u.usage_data = <<>> THEN 0
    ELSE IF days <= Len(u.usage_data)
    THEN SumTotalGallons(SubSeq(u.usage_data, Len(u.usage_data) - days + 1,
                                Len(u.usage_data)))
    ELSE SumTotalGallons(u.usage_data)

(* date(today.year, today.month, 1) *)
MonthStart(t) == t - (t % DaysPerMonth)

(* A monthly total that leaves out the first day of the month *)
GetMonthlyUsageAfterFirst(u, t) ==
    IF ~u.present \/ u.usage_data = <<>> THEN 0
    ELSE LET InMonth(r) == r.start_date > MonthStart(t)
         IN  SumTotalGallons(SelectSeq(u.usage_data, InMonth))

(* _get_monthly_usage *)
GetMonthlyUsage(u, t) ==
    IF ~u.present \/ u.usage_data = <<>> THEN 0
    ELSE LET InMonth(r) == r.start_date >= MonthStart(t)
         IN  SumTotalGallons(SelectSeq(u.usage_data, InMonth))

(* A leak status raised by any record of the list *)
GetLeakStatusOfAny(u) ==
    IF ~u.present \/ u.usage_data = <<>> THEN FALSE
    ELSE \E i \in 1 .. Len(u.usage_data) : u.usage_data[i].is_leaking

(* _get_leak_status *)
GetLeakStatus(u) ==
    IF ~u.present \/ u.usage_data = <<>> THEN FALSE
    ELSE u.usage_data[Len(u.usage_data)].is_leaking

(* native_value and is_on of the connection's sensors, read from the        *)
(* snapshot the coordinator holds                                           *)
Render ==
    /\ ~native_value.rendered
    /\ native_value' =
          [rendered |-> TRUE,
           daily_total |-> GetLatestNonRecentValue(records, "daily_total", today),
           irrigation_gallons |->
               GetLatestNonRecentValue(records, "irrigation_gallons", today),
           irrigation_events |->
               GetLatestNonRecentValue(records, "irrigation_events", today),
           weekly_total |-> GetAggregatedUsage(records, WeeklyDays),
           monthly_total |-> GetMonthlyUsage(records, today),
           leak_detected |-> GetLeakStatus(records)]
    /\ UNCHANGED <<coordinatorVars, listVars, today, records, setupVars, markVars, flowVars,
                   probeVars>>

NextSensor == Render

InitShown ==
    /\ InitCoordinator({1}, {0}, {}, FALSE)
    /\ InitList
    /\ InitProbe
    /\ InitFlow
    /\ InitMark
    /\ InitLoaded
    /\ today \in Todays
    /\ records \in {NoUsage} \cup {[present |-> TRUE, usage_data |-> seq] : seq \in UsageLists}
    /\ native_value = NotRendered

SpecSensor == InitShown /\ [][NextSensor]_vars

----------------------------------------------------------------------------
(* The set-up of the config entry: __init__.py.  The coordinator polls once *)
(* the entry is loaded.                                                     *)

(* What login and is_logged_in can answer: a truth value, or an exception,  *)
(* a RequestException (network, HTTP) or another one                        *)
Answers == {"true", "false", "network_error", "other_error"}

(* A set-up that takes the word of login *)
SetupEntryResultTrustsLogin(login, check) ==
    CASE login = "network_error" -> "not_ready"
      [] login \in {"false", "other_error"} -> "auth_failed"
      [] OTHER -> "client"

(* _setup_entry: the client, ConfigEntryAuthFailed or ConfigEntryNotReady;  *)
(* is_logged_in is called only after login returned true.                   *)
SetupEntryResult(login, check) ==
    CASE login = "network_error" -> "not_ready"
      [] login \in {"false", "other_error"} -> "auth_failed"
      [] check = "network_error" -> "not_ready"
      [] check \in {"false", "other_error"} -> "auth_failed"
      [] OTHER -> "client"

(* async_setup_entry, first or retried after ConfigEntryNotReady *)
SetupEntry ==
    /\ entry.state \in {"not_loaded", "setup_retry"}
    /\ \E login \in Answers, check \in Answers :
         LET result == SetupEntryResult(login, check)
         IN  /\ entry' = [state |-> CASE result = "client" -> "loaded"
                                      [] result = "auth_failed" -> "setup_error"
                                      [] result = "not_ready" -> "setup_retry",
                          login |-> login,
                          check |-> IF login = "true" THEN check ELSE "none"]
             /\ client' = IF result = "client"
                           THEN [exists |-> TRUE,
                                 logged_in |-> login = "true" /\ check = "true"]
                           ELSE NoClient
    /\ UNCHANGED <<coordinatorVars, listVars, sensorVars, markVars, flowVars, probeVars>>

(* The coordinator of a loaded entry at work *)
Polling == entry.state = "loaded" /\ Next

NextSetup ==
    \/ SetupEntry
    \/ Polling

InitSetup ==
    /\ InitCoordinator({1}, {0}, {}, FALSE)
    /\ InitList
    /\ InitProbe
    /\ InitFlow
    /\ InitMark
    /\ InitSensor
    /\ entry = [state |-> "not_loaded", login |-> "none", check |-> "none"]
    /\ client = NoClient

SpecSetup == InitSetup /\ [][NextSetup]_vars

----------------------------------------------------------------------------
(* The connection cache *)

(* The step is caller k entering _get_cached_service_connections *)
EnterStep(k) ==
    /\ caller[k].pc # "fetching"
    /\ caller'[k] # caller[k]
    /\ caller'[k].pc \in {"returned", "fetching"}

(* The step is the API's answer reaching caller k *)
FetchReturnsStep(k) == caller[k].pc = "fetching" /\ caller'[k].pc # "fetching"

(* C21: a caller that enters while a cached list younger than 5 minutes     *)
(* exists is returned that list, and no call of list_service_connections is *)
(* made.                                                                    *)
FreshCacheServedWithoutCall ==
    [][\A k \in Callers :
          /\ EnterStep(k)
          /\ cached_service_connections # NoList
          /\ service_connections_cache_time # NoTime
          /\ wall - service_connections_cache_time < CacheDurationMinutes
          => /\ caller'[k].pc = "returned"
             /\ caller'[k].ret = cached_service_connections
             /\ apiCalls' = apiCalls
             /\ cached_service_connections' = cached_service_connections
             /\ service_connections_cache_time' = service_connections_cache_time
      ]_vars

(* C21 happens: a caller was served a list cached 4 minutes before, without *)
(* a call of its own.                                                       *)
ServedFromCacheBeforeExpiry ==
    \E k \in Callers :
        /\ caller[k].pc = "returned"
        /\ caller[k].call = 0
        /\ caller[k].ret = cached_service_connections
        /\ caller[k].now = service_connections_cache_time + CacheDurationMinutes - 1

(* C22: when the fetch of the list fails and a list is cached, expired or   *)
(* not, the caller is returned the cached list, and list and cache time     *)
(* stay as they are; the call fails only when no list was ever cached.      *)
FailedFetchFallsBackToCache ==
    [][\A k \in Callers :
          FetchReturnsStep(k) /\ apiCalls'[caller[k].call].result = "failed" =>
              /\ cached_service_connections' = cached_service_connections
              /\ service_connections_cache_time' = service_connections_cache_time
              /\ IF cached_service_connections # NoList
                 THEN /\ caller'[k].pc = "returned"
                      /\ caller'[k].ret = cached_service_connections
                 ELSE /\ caller'[k].pc = "failed"
                      /\ \A n \in 1 .. Len(apiCalls) : apiCalls[n].result # "ok"
      ]_vars

(* C22 happens: a caller whose fetch failed was returned a list cached more *)
(* than 5 minutes before.                                                   *)
ExpiredListReturnedOnFailure ==
    \E k \in Callers :
        /\ caller[k].pc = "returned"
        /\ caller[k].call # 0
        /\ apiCalls[caller[k].call].result = "failed"
        /\ caller[k].ret = cached_service_connections
        /\ caller[k].ret # NoList
        /\ caller[k].now - service_connections_cache_time >= CacheDurationMinutes

(* List and cache time are both unset, or both come from one successful     *)
(* call of the API.                                                         *)
PairOfOneFetch ==
    /\ cached_service_connections = NoList <=> service_connections_cache_time = NoTime
    /\ cached_service_connections # NoList =>
          /\ apiCalls[cached_service_connections].result = "ok"
          /\ service_connections_cache_time = apiCalls[cached_service_connections].now

(* C23: however the callers interleave, the cached list and the cache time  *)
(* are written together by one successful fetch: never is one set without   *)
(* the other, never do they come from two fetches, and the pair of the      *)
(* caller that wrote last is the one the cache holds.                       *)
CachePairWrittenTogether ==
    [][/\ PairOfOneFetch'
       /\ \A k \in Callers :
             FetchReturnsStep(k) /\ apiCalls'[caller[k].call].result = "ok" =>
                 /\ cached_service_connections' = caller[k].call
                 /\ service_connections_cache_time' = caller[k].now
      ]_vars

(* C23 happens: two callers fetched at once, and the one that entered first *)
(* wrote last: the cache holds its pair.                                    *)
EarlierCallerWroteLast ==
    \E n, m \in 1 .. Len(apiCalls) :
        /\ n < m
        /\ apiCalls[n].result = "ok"
        /\ apiCalls[m].result = "ok"
        /\ apiCalls[n].now < apiCalls[m].now
        /\ cached_service_connections = n
        /\ \E k \in Callers : caller[k].call = m /\ caller[k].pc = "returned"
        /\ \E k \in Callers : caller[k].call = n /\ caller[k].pc = "returned"

----------------------------------------------------------------------------
(* What the sensors show *)

(* The sensors have been rendered from a snapshot entry with records *)
Shown == native_value.rendered /\ records.present /\ records.usage_data # <<>>

(* The sensors have been rendered with no snapshot entry, or an empty one *)
ShownNothing == native_value.rendered /\ (~records.present \/ records.usage_data = <<>>)

(* The three daily sensors show the readings of record r *)
DailyShows(r) ==
    /\ native_value.daily_total = r.total_gallons
    /\ native_value.irrigation_gallons = r.irrigation_gallons
    /\ native_value.irrigation_events = r.irrigation_events

DailyShowsNone ==
    /\ native_value.daily_total = NoneValue
    /\ native_value.irrigation_gallons = NoneValue
    /\ native_value.irrigation_events = NoneValue

(* The places in the list of the records that are not of today and not a    *)
(* zero reading of yesterday                                                *)
NotTodayNorZeroYesterday ==
    {i \in 1 .. Len(records.usage_data) :
        LET r == records.usage_data[i]
        IN  /\ r.start_date # today
            /\ ~(r.start_date = today - 1 /\ r.total_gallons = 0)}

(* The places in the list of the records that are of a day before today and *)
(* not a zero reading of yesterday                                          *)
BeforeTodayNotZeroYesterday ==
    {i \in 1 .. Len(records.usage_data) :
        LET r == records.usage_data[i]
        IN  /\ r.start_date < today
            /\ ~(r.start_date = today - 1 /\ r.total_gallons = 0)}

RECURSIVE TotalOver(_)
TotalOver(I) ==
    IF I = {} THEN 0
    ELSE LET i == CHOOSE x \in I : TRUE
         IN  records.usage_data[i].total_gallons + TotalOver(I \ {i})

(* C25: the weekly total is the sum of total volume over the last           *)
(* min(7, length) records of the list, whatever their dates and with no     *)
(* filter of recent records; it is 0 with no snapshot entry or no records.  *)
WeeklyTotalOfLastSeven ==
    /\ Shown =>
          LET n == Len(records.usage_data)
              first == IF n > WeeklyDays THEN n - WeeklyDays + 1 ELSE 1
          IN  native_value.weekly_total = TotalOver(first .. n)
    /\ ShownNothing => native_value.weekly_total = 0

(* C25 happens: of more than seven records the first has a reading that the *)
(* weekly total leaves out, and the last, of today or later, one that it    *)
(* takes in.                                                                *)
EighthRecordLeftOut ==
    /\ Shown
    /\ Len(records.usage_data) > WeeklyDays
    /\ records.usage_data[1].total_gallons > 0
    /\ records.usage_data[Len(records.usage_data)].total_gallons > 0
    /\ records.usage_data[Len(records.usage_data)].start_date >= today
    /\ native_value.weekly_total > 0

(* C26: the month-to-date total is the sum of total volume over the records *)
(* that start on or after the first day of the month of the current date;   *)
(* records of earlier months add nothing, and it is 0 when no record        *)
(* qualifies.                                                               *)
MonthlyTotalSinceMonthStart ==
    /\ Shown =>
          native_value.monthly_total =
              TotalOver({i \in 1 .. Len(records.usage_data) :
                            records.usage_data[i].start_date >= MonthStart(today)})
    /\ ShownNothing => native_value.monthly_total = 0

(* C26 happens: the list holds a reading of the month before and one of the *)
(* first day of the month; today is a later day of the month.               *)
MonthBoundaryInList ==
    /\ Shown
    /\ today > MonthStart(today)
    /\ \E i, j \in 1 .. Len(records.usage_data) :
          /\ records.usage_data[i].start_date < MonthStart(today)
          /\ records.usage_data[i].total_gallons > 0
          /\ records.usage_data[j].start_date = MonthStart(today)
          /\ records.usage_data[j].total_gallons > 0
    /\ native_value.monthly_total > 0

(* C27: the leak sensor shows the is_leaking flag of the last record of the *)
(* connection's list in the snapshot, and false with no snapshot entry or   *)
(* an empty list.                                                           *)
LeakOfLastRecord ==
    /\ Shown =>
          native_value.leak_detected =
              records.usage_data[Len(records.usage_data)].is_leaking
    /\ ShownNothing => native_value.leak_detected = FALSE

(* C27 happens: an earlier record has the leak flag, the last has not: no   *)
(* leak is shown.                                                           *)
EarlierLeakNotShown ==
    /\ Shown
    /\ Len(records.usage_data) > 1
    /\ records.usage_data[1].is_leaking
    /\ ~records.usage_data[Len(records.usage_data)].is_leaking
    /\ ~native_value.leak_detected

----------------------------------------------------------------------------
(* The set-up of the entry *)

(* The last set-up was answered false by login or by the logged-in check,   *)
(* or met an exception that is no network or HTTP error                     *)
LoginRefused ==
    \/ entry.login \in {"false", "other_error"}
    \/ entry.login = "true" /\ entry.check \in {"false", "other_error"}

(* The last set-up met a network or HTTP error *)
LoginUnreachable ==
    \/ entry.login = "network_error"
    \/ entry.login = "true" /\ entry.check = "network_error"

(* C28: set-up sorts the failures of login: when login returns false or the *)
(* logged-in check fails the entry ends in the authentication failure, from *)
(* which no set-up is tried again; when login meets a network or HTTP error *)
(* it ends in the state retried later; it is never loaded without a client  *)
(* that is logged in.                                                       *)
LoginFailuresClassified ==
    [][/\ entry'.state = "setup_error" <=> LoginRefused'
       /\ entry'.state = "setup_retry" <=> LoginUnreachable'
       /\ entry'.state = "loaded" => client'.exists /\ client'.logged_in
       /\ entry.state = "setup_error" => entry' = entry /\ client' = client
      ]_vars

(* C28 happens: login returned false: the entry is in the authentication    *)
(* failure and has no client.                                               *)
LoginReturnedFalse ==
    /\ entry.state = "setup_error"
    /\ entry.login = "false"
    /\ ~client.exists

----------------------------------------------------------------------------
(* The seen window and the detector, once more *)

(* C29, as stated: after the seen-window update the window holds the hour   *)
(* of every record of the response that lies within [now - 7 days, now],    *)
(* settled or not.                                                          *)
SeenHoldsReturnedWithinClosedWindow ==
    \A c \in Conns :
        Updated(c) =>
            \A h \in resp[c].recs :
                now - RetentionHours <= h /\ h <= now => h \in seen[c]

(* C29, amended: after the seen-window update the window holds the hour of  *)
(* every record of the response that lies within (now - 7 days, now], the   *)
(* boundary itself left out, whether or not the detector took the record    *)
(* for settled.                                                             *)
SeenHoldsReturnedWithinWindow ==
    \A c \in Conns :
        Updated(c) =>
            \A h \in resp[c].recs :
                now - RetentionHours < h /\ h <= now => h \in seen[c]

(* C29 happens: the response held a record too recent to be settled and one *)
(* the detector returned; the window holds both.                            *)
RecentAndSettledBothSeen ==
    \E c \in Conns :
        /\ Updated(c)
        /\ \E h \in resp[c].recs :
              /\ now - h <= HistoricalAgeHours
              /\ h \notin hist[c]
              /\ h \in seen[c]
        /\ \E h \in hist[c] : h \in seen[c]

(* C30: the detector returns no record that is 2 hours old or less,         *)
(* whatever its volume and whether or not its hour is in the seen window.   *)
NoRecordOfTwoHoursReturned ==
    \A c \in Conns :
        Detected(c) => \A h \in hist[c] : now - h > HistoricalAgeHours

(* C30 happens: the response held a record with water usage, exactly 2      *)
(* hours old and never seen; the detector did not return it.                *)
TwoHoursOldHeldBack ==
    \E c \in Conns :
        /\ Detected(c)
        /\ \E h \in resp[c].recs :
              /\ now - h = HistoricalAgeHours
              /\ total_gallons(h) > 0
              /\ h \notin seen[c]
              /\ h \notin hist[c]

----------------------------------------------------------------------------
(* The long run: an account with one service connection, the utility        *)
(* holding one reading, a statistics backend that accepts what it is given;  *)
(* the coordinator is followed over MaxPolls cycles.                         *)
InitCleanup ==
    /\ InitCycles({1}, {0}, {}, FALSE, MaxPolls)
    /\ InitList
    /\ InitProbe
    /\ InitFlow
    /\ InitMark
    /\ InitSensor
    /\ InitLoaded

SpecCleanup == InitCleanup /\ [][Next]_vars

(* A cycle publishes the snapshot it gathered, and it is the n-th cycle of  *)
(* the coordinator to return one, with n a multiple of CleanupEvery.        *)
CleanupDue ==
    /\ phase = "Gather"
    /\ outcome' = "published"
    /\ updates' % CleanupEvery = 0

(* C31: the cleanup pass of the seen windows runs on every successful cycle *)
(* whose ordinal is a multiple of 10: when such a cycle has returned, no     *)
(* seen window holds an hour at or before the retention boundary.            *)
CleanupOnEveryTenthCycle ==
    [][CleanupDue => \A c \in Conns : \A h \in seen'[c] : h > now - RetentionHours]_vars

----------------------------------------------------------------------------
(* C32: within the pipeline of one connection the steps come in order: the  *)
(* detector runs on a usage response that has been fetched, the merge runs  *)
(* on what the detector returned, and the seen window is updated only when  *)
(* the merge has returned or failed: up to then the window is the one the   *)
(* detector read.  (What other pipelines do in between is not constrained.) *)
PipelineStepsInOrder ==
    \A c \in Conns :
        phase = "Gather" =>
            /\ pc[c] = "start" => ~resp[c].ok /\ hist[c] = {} /\ mlog[c] = NoLog
            /\ pc[c] = "fetched" => resp[c].ok /\ hist[c] = {} /\ mlog[c] = NoLog
            /\ pc[c] = "detected" =>
                  /\ resp[c].ok
                  /\ hist[c] # {}
                  /\ hist[c] = DetectNewHistoricalData(seen[c], resp[c].recs, now)
                  /\ mlog[c] = NoLog
            /\ pc[c] = "merged" =>
                  /\ resp[c].ok
                  /\ hist[c] = DetectNewHistoricalData(seen[c], resp[c].recs, now)
                  /\ hist[c] # {} => mlog[c].batch = hist[c]

(* C32 happens: the pipelines of two connections run in one cycle; the one  *)
(* started second has been through fetch, detection, merge and seen-window  *)
(* update while the one started first waits for its merge.                  *)
SecondPipelineOvertakes ==
    /\ phase = "Gather"
    /\ pc[1] = "detected"
    /\ hist[1] # {}
    /\ 0 \notin seen[1]
    /\ Updated(2)
    /\ 0 \in seen[2]
    /\ ckpt[2]["total_gallons"].exists

----------------------------------------------------------------------------
(* A step of the running cycle can be taken: the collection of the results, *)
(* or a step of a pipeline.  (The merge of a detected batch is such a step:  *)
(* it returns or raises.)                                                    *)
CycleCanStep ==
    \/ ENABLED Publish
    \/ \E c \in Conns : pc[c] = "detected" /\ hist[c] # {}
    \/ ENABLED (\E c \in Conns : Fetch(c) \/ Detect(c) \/ UpdateState(c))

(* How far a pipeline is *)
Rank(p) ==
    CASE p = "start" -> 0
      [] p = "fetched" -> 1
      [] p = "detected" -> 2
      [] p = "merged" -> 3
      [] OTHER -> 4

(* A step inside a running cycle takes one pipeline forward and leaves the  *)
(* others where they are.                                                   *)
PipelineAdvances ==
    \E c \in Conns :
        /\ Rank(pc'[c]) > Rank(pc[c])
        /\ \A d \in Conns \ {c} : pc'[d] = pc[d]

(* The coordinator is idle with nothing of a cycle in it *)
IdleAgain ==
    /\ phase' = "Idle"
    /\ pc' = [c \in Conns |-> "idle"]
    /\ resp' = [c \in Conns |-> NoResp]
    /\ hist' = [c \in Conns |-> {}]

(* The step that ends a cycle as failed *)
CycleFails ==
    /\ outcome' = "failed"
    /\ phase' = "Idle"
    /\ cycle' # cycle \/ phase = "Gather"

----------------------------------------------------------------------------
(* _check_and_mark_statistics_inserted, step by step, with the tasks that   *)
(* call it                                                                  *)

(* The insertion keys the tasks call with: those of the batches of one hour *)
MarkKeys == {InsertionKey(Metrics[i], {0}) : i \in 1 .. 2}

(* A task calls with a connection and an insertion key *)
Call(k) ==
    /\ task[k].pc = "idle"
    /\ \E c \in Conns, key \in MarkKeys :
         task' = [task EXCEPT ![k] = [pc |-> "called", service_connection_id |-> c,
                                      insertion_key |-> key, already |-> FALSE]]
    /\ UNCHANGED <<coordinatorVars, listVars, sensorVars, setupVars, state_lock, flowVars, probeVars>>

(* A task that goes on without the lock *)
AcquireRegardless(k) ==
    /\ task[k].pc = "called"
    /\ state_lock' = k
    /\ task' = [task EXCEPT ![k].pc = "locked"]
    /\ UNCHANGED <<coordinatorVars, listVars, sensorVars, setupVars, flowVars, probeVars>>

(* with self._state_lock: the task goes on when the lock is free *)
Acquire(k) ==
    /\ task[k].pc = "called"
    /\ state_lock = Free
    /\ state_lock' = k
    /\ task' = [task EXCEPT ![k].pc = "locked"]
    /\ UNCHANGED <<coordinatorVars, listVars, sensorVars, setupVars, flowVars, probeVars>>

(* The test: a key that is in the set is answered True, the lock released *)
Test(k) ==
    /\ task[k].pc = "locked"
    /\ IF task[k].insertion_key \in session[task[k].service_connection_id]
       THEN /\ task' = [task EXCEPT ![k].pc = "returned", ![k].already = TRUE]
            /\ state_lock' = Free
       ELSE /\ task' = [task EXCEPT ![k].pc = "tested"]
            /\ UNCHANGED state_lock
    /\ UNCHANGED <<coordinatorVars, listVars, sensorVars, setupVars, flowVars, probeVars>>

(* The mark: the key is added, the answer is False, the lock released *)
Mark(k) ==
    /\ task[k].pc = "tested"
    /\ session' = [session EXCEPT ![task[k].service_connection_id] =
                                     @ \cup {task[k].insertion_key}]
    /\ task' = [task EXCEPT ![k].pc = "returned", ![k].already = FALSE]
    /\ state_lock' = Free
    /\ UNCHANGED <<env, now, cycleVars, pipeVars, seen, ckpt, pubVars, histVars, listVars,
                   sensorVars, setupVars, flowVars, probeVars>>

NextMark ==
    \/ \E k \in Tasks : Call(k)
    \/ \E k \in Tasks : Acquire(k)
    \/ \E k \in Tasks : Test(k)
    \/ \E k \in Tasks : Mark(k)

SpecMark == InitWith(Conns, {0}, {}, FALSE) /\ [][NextMark]_vars

SameCall(j, k) ==
    /\ task[j].service_connection_id = task[k].service_connection_id
    /\ task[j].insertion_key = task[k].insertion_key

(* C34: of two tasks that called check-and-mark with the same connection    *)
(* and the same insertion key, exactly one is told that the key was not     *)
(* inserted before; and between one task's test and its mark no other task  *)
(* is inside the lock.                                                      *)
ExactlyOneMarksFirst ==
    \A j, k \in Tasks :
        /\ j # k /\ task[j].pc = "returned" /\ task[k].pc = "returned" /\ SameCall(j, k)
              => task[j].already # task[k].already
        /\ j # k /\ task[j].pc \in {"locked", "tested"}
              => task[k].pc \notin {"locked", "tested"}

(* C34 happens: one task has tested the key and not yet marked it; the      *)
(* other has called with the same connection and key and waits at the lock. *)
SecondTaskWaitsAtLock ==
    \E j, k \in Tasks :
        /\ task[j].pc = "tested"
        /\ task[k].pc = "called"
        /\ SameCall(j, k)
        /\ state_lock = j

----------------------------------------------------------------------------
(* The config flow (config_flow.py), the unload of the entry and the        *)
(* service operations (__init__.py)                                         *)

(* What list_service_connections can answer in the flow: a list, None, or   *)
(* an exception                                                             *)
ListAnswers == {"list", "none", "network_error", "other_error"}

Raised(answer) ==
    CASE answer = "network_error" -> "RequestException"
      [] answer = "other_error" -> "Exception"
      [] OTHER -> "nothing"

(* _validate_input, in the executor: the client, or what it raises *)
ValidateInputInExecutor(login, list) ==
    CASE Raised(login) # "nothing" -> Raised(login)
      [] login = "false" -> "InvalidAuth"
      [] Raised(list) # "nothing" -> Raised(list)
      [] list = "none" -> "CannotConnect"
      [] OTHER -> "client"

(* validate_input: the info for the entry, or what it raises.  With the     *)
(* client in hand logout is called; the except clauses are tried in order:  *)
(* RequestException, InvalidAuth, Exception.                                *)
ValidateInput(login, list, logout) ==
    LET inner == ValidateInputInExecutor(login, list)
        raised == IF inner = "client" THEN Raised(logout) ELSE inner
    IN  CASE raised = "nothing" -> "info"
          [] raised = "RequestException" -> "CannotConnect"
          [] raised = "InvalidAuth" -> "InvalidAuth"
          [] OTHER -> "UnknownError"

(* async_step_user: the errors of the form for what validate_input raised *)
FormErrors(raised) ==
    CASE raised = "CannotConnect" -> {<<"base", "cannot_connect">>}
      [] raised = "InvalidAuth" -> {<<"password", "invalid_auth">>}
      [] raised = "UnknownError" -> {<<"base", "unknown">>}
      [] OTHER -> {}

ApiCall(operation, call, on) == [operation |-> operation, call |-> call, on |-> on]

(* The calls validate_input makes of the API client *)
ValidateInputCalls(step, login, list) ==
    {ApiCall(step, "login", "executor")}
    \cup (IF login = "true"
          THEN {ApiCall(step, "list_service_connections", "executor")}
          ELSE {})
    \cup (IF ValidateInputInExecutor(login, list) = "client"
          THEN {ApiCall(step, "logout", "loop")}
          ELSE {})

(* async_step_user with the user's input, for an account that has no entry *)
AsyncStepUser ==
    /\ entry.state = "none"
    /\ \E login \in Answers, list \in ListAnswers, logout \in Answers :
         LET result == ValidateInput(login, list, logout)
         IN  /\ flow' = [type |-> IF result = "info" THEN "create_entry" ELSE "form",
                         errors |-> FormErrors(result),
                         login |-> login,
                         list |-> IF login = "true" THEN list ELSE "not_called"]
             /\ entry' = IF result = "info"
                          THEN [state |-> "not_loaded", login |-> "none", check |-> "none"]
                          ELSE entry
             /\ api_log' = api_log \cup ValidateInputCalls("config_flow", login, list)
    /\ UNCHANGED <<coordinatorVars, listVars, sensorVars, client, markVars, probeVars>>

(* async_step_reauth_confirm with the new password, for an entry whose      *)
(* set-up failed on authentication: when the input is valid the entry is    *)
(* reloaded                                                                 *)
AsyncStepReauthConfirm ==
    /\ entry.state = "setup_error"
    /\ \E login \in Answers, list \in ListAnswers, logout \in Answers :
         LET result == ValidateInput(login, list, logout)
         IN  /\ flow' = [type |-> IF result = "info" THEN "abort" ELSE "form",
                         errors |-> FormErrors(result),
                         login |-> login,
                         list |-> IF login = "true" THEN list ELSE "not_called"]
             /\ entry' = IF result = "info"
                          THEN [state |-> "not_loaded", login |-> "none", check |-> "none"]
                          ELSE entry
             /\ api_log' = api_log \cup ValidateInputCalls("reauth", login, list)
    /\ UNCHANGED <<coordinatorVars, listVars, sensorVars, client, markVars, probeVars>>

(* async_unload_entry: logout is called, then the platforms are unloaded *)
UnloadEntry ==
    /\ entry.state = "loaded"
    /\ \E logout \in Answers :
         /\ entry' = [entry EXCEPT !.state = IF Raised(logout) = "nothing"
                                              THEN "not_loaded" ELSE "failed_unload"]
         /\ client' = [client EXCEPT !.logged_in = @ /\ Raised(logout) # "nothing"]
    /\ api_log' = api_log \cup {ApiCall("unload", "logout", "loop")}
    /\ UNCHANGED <<coordinatorVars, listVars, sensorVars, markVars, flow, probeVars>>

(* The services get_service_connection and get_hourly_usage of a loaded     *)
(* entry: one call of the API client each                                   *)
ServiceCalls == {"get_service_connection", "get_usage"}

CallService ==
    /\ entry.state = "loaded"
    /\ \E call \in ServiceCalls :
         api_log' = api_log \cup {ApiCall("service", call, "executor")}
    /\ UNCHANGED <<coordinatorVars, listVars, sensorVars, setupVars, markVars, flow, probeVars>>

NextFlow ==
    \/ AsyncStepUser
    \/ AsyncStepReauthConfirm
    \/ SetupEntry
    \/ UnloadEntry
    \/ CallService

InitNoEntry ==
    /\ InitCoordinator({1}, {0}, {}, FALSE)
    /\ InitList
    /\ InitProbe
    /\ InitFlow
    /\ InitMark
    /\ InitSensor
    /\ entry = [state |-> "none", login |-> "none", check |-> "none"]
    /\ client = NoClient

SpecFlow == InitNoEntry /\ [][NextFlow]_vars

(* C35: every call of the API client is made on an executor worker, none    *)
(* on the main loop.                                                        *)
NoApiCallOnMainLoop == \A e \in api_log : e.on = "executor"

(* C40: when in the validation of the config flow login succeeds and        *)
(* list_service_connections returns None, the form is shown again with the  *)
(* base error cannot_connect, and no entry is created.                      *)
NoListShowsCannotConnect ==
    flow.login = "true" /\ flow.list = "none" =>
        /\ flow.type = "form"
        /\ flow.errors = {<<"base", "cannot_connect">>}
        /\ entry.state \in {"none", "setup_error"}

----------------------------------------------------------------------------
(* One usage record before the sensors' filter and before the detector, at  *)
(* one current time.  The record is that of an hour; its date and the       *)
(* current date are the days the hours fall in.                             *)

MaxProbeHour == 72
HoursPerDay == 24

DateOf(h) == h \div HoursPerDay

(* The record of hour h as the sensors read it *)
RecordOfHour(h) == UsageData(DateOf(h), total_gallons(h), FALSE)

(* _filter_recent_incomplete_data keeps the record; the detector regards it *)
(* as settled (seen or not)                                                 *)
Classify ==
    /\ ~probe.done
    /\ probe' = [probe EXCEPT
                   !.done = TRUE,
                   !.kept = FilterRecentIncompleteData(<<RecordOfHour(probe.hour)>>,
                                                       DateOf(probe.now)) # <<>>,
                   !.settled = IsHistorical(probe.hour, probe.now)]
    /\ UNCHANGED <<coordinatorVars, listVars, sensorVars, setupVars, markVars, flowVars>>

NextClassify == Classify

InitClassify ==
    /\ InitCoordinator({1}, {0}, {}, FALSE)
    /\ InitList
    /\ InitFlow
    /\ InitMark
    /\ InitSensor
    /\ InitLoaded
    /\ \E h \in 0 .. MaxProbeHour, t \in 0 .. MaxProbeHour :
          h <= t /\ probe = Probe(h, t)

SpecClassify == InitClassify /\ [][NextClassify]_vars

(* C36: the sensors' filter keeps a record exactly when the detector        *)
(* regards it as settled, for every record and every current time.          *)
FilterKeepsExactlySettled == probe.done => (probe.kept <=> probe.settled)

----------------------------------------------------------------------------
(* The checkpoint of metric m covers hour h *)
Covered(c, m, h) == ckpt[c][m].exists /\ ckpt[c][m].start >= h

(* A merge of this process was to submit the point of hour h for some       *)
(* metric and failed: the insertion key of its batch is marked, the point   *)
(* was never submitted and the checkpoint does not cover it.                *)
LeftByFailedMerge(c, h) ==
    \E m \in MetricSet :
        /\ \E key \in session[c] : key[1] = m /\ key[2] <= h /\ h <= key[3]
        /\ subCount[c][m][h] = 0
        /\ ~Covered(c, m, h)

(* C37: the settled records of a batch whose merge failed are not lost: a   *)
(* later cycle that receives such a record again detects it.                *)
FailedBatchDetectedAgain ==
    [][\A c \in Conns :
          DetectStep(c) =>
              \A h \in resp[c].recs :
                  IsHistorical(h, now) /\ LeftByFailedMerge(c, h) => h \in hist'[c]]_vars

----------------------------------------------------------------------------
(* The merge of connection c has passed over the record of hour h for       *)
(* metric m: the hour is not after the start of the last statistic read.    *)
SkippedAtCheckpoint(c, m, h) ==
    /\ pc[c] = "merged"
    /\ mlog[c].entries[m].state = "done"
    /\ mlog[c].entries[m].read.exists
    /\ h \in mlog[c].batch
    /\ h <= mlog[c].entries[m].read.start

(* C38: a detected record the merge passes over because its hour is not     *)
(* after the checkpoint has its point in the persisted series already: the  *)
(* point of that metric and hour was submitted before.                      *)
SkippedRecordWasRecorded ==
    \A c \in Conns, m \in MetricSet, h \in AllHours :
        SkippedAtCheckpoint(c, m, h) => subCount[c][m][h] > 0

----------------------------------------------------------------------------
(* The last cycle has returned a snapshot, and nothing but time has passed  *)
(* since.                                                                   *)
Returned == phase = "Idle" /\ outcome \in {"published", "empty"}

(* C39: after every cycle that returns without raising, the usage_data      *)
(* field, which the list-usage operation reads, is the snapshot the cycle   *)
(* returned and the sensors read; also when the connection list was empty.  *)
UsageDataIsReturnedSnapshot == Returned => data = Data(usage_data)

====
